---- MODULE Spec2Model ----
(***************************************************************************)
(* GymUnity: the news ingestion pipeline, the feedback ledger and the      *)
(* hybrid recommender, as the repository's design records describe them    *)
(* (NEWS_RECOMMENDER_DESIGN in src/components/Navbar.tsx, SYSTEM_SPEC in   *)
(* src/unnamed/part_000, DATA_FLOW in src/unnamed/part_001).               *)
(*                                                                         *)
(* The specifications share the variables:                                 *)
(*   SpecEvents      POST /news/events (submit_events), one call at a time *)
(*   SpecConcurrent  the same handler, two calls in flight                 *)
(*   SpecIngest      the RSS ingestion run over the enabled sources        *)
(*   SpecHealth      the same run, many runs, for the source health fields *)
(*   SpecFailures    the same run with sources and entries that fail       *)
(*   SpecAll         ingestion, embedding, feed and ledger side by side    *)
(*   SpecCoach       the AICoach page, two users in one browser            *)
(*   SpecSession     the AICoach page, one user                            *)
(*   SpecTextType    the TextType typing animation                         *)
(* Each leaves the other subsystems' variables unchanged.                  *)
(***************************************************************************)
EXTENDS Integers, Sequences, FiniteSets, TLC

VARIABLES
    now,               \* the clock, in minutes
    user_events,       \* table user_events: the sequence of inserted rows
    popularity,        \* news_articles.popularity_score, by article id
    req,               \* the POST /news/events calls in flight, by worker
    enabled,           \* news_sources.enabled, by source id
    fetch_error_count, \* news_sources.fetch_error_count, by source id
    last_fetched_at,   \* news_sources.last_fetched_at: the run that fetched it, 0 = never
    raw_feed_items,    \* table raw_feed_items: the sequence of rows
    news_articles,     \* table news_articles: the sequence of rows, id = index
    feed,              \* what each source's rss_url serves
    run,               \* the ingestion run: the runs in flight and their position
    runs_started,      \* ingestion runs started so far
    run_budget,        \* ingestion runs this specification follows
    prefs,             \* table user_news_preferences, by user id
    hidden,            \* table user_hidden_articles: pairs <<user, article>>
    feed_impressions,  \* table feed_impressions: the sequence of rows
    vector_backend,    \* VECTOR_DB_PROVIDER, read once at process start
    response,          \* the last answer of GET /news/recommended
    feed_calls,        \* feed requests served so far
    feed_budget,       \* feed requests this specification follows
    article_embeddings, \* table article_embeddings: one pointer row per article
    embed_pass,        \* the embedding pass: its batch and its statistics
    route,             \* the page the browser shows
    coach,             \* the state of the AICoach component instance
    localStorage,      \* the browser's localStorage, by key
    requests,          \* the chat requests in flight
    textType           \* a TextType instance: its props, state, timer and callbacks

ledgerVars == <<now, user_events, req>>
ingestVars == <<enabled, fetch_error_count, last_fetched_at, raw_feed_items,
                news_articles, feed, run, runs_started, run_budget>>
recVars == <<prefs, hidden, feed_impressions, vector_backend, response, feed_calls,
             feed_budget>>
embedVars == <<article_embeddings, embed_pass>>
uiVars == <<route, coach, localStorage, requests, textType>>
feedVars == <<recVars, embedVars, uiVars>>
vars == <<ledgerVars, popularity, ingestVars, feedVars>>

(***************************************************************************)
(* Small helpers.                                                          *)
(***************************************************************************)
Range(s) == {s[i] : i \in DOMAIN s}

RECURSIVE SumSeq(_)
SumSeq(s) == IF s = <<>> THEN 0 ELSE Head(s) + SumSeq(Tail(s))

\* the server's request workers
Workers == {1, 2}

\* a worker with no POST /news/events call
IdleReq ==
    [pc |-> "idle", user_id |-> 0, events |-> <<>>, idx |-> 0, accepted |-> 0,
     duplicates_skipped |-> 0, is_dup |-> FALSE, pop_read |-> 0]

Users == {1, 2}

\* "Auto-create default prefs on first access": no topics, nothing blocked
DefaultPrefs == [topics |-> <<>>, blocked_keywords |-> {}, language |-> "en"]

\* no feed request answered yet
NoResponse ==
    [status |-> 0, user_id |-> 0, page |-> 0, page_size |-> 0, items |-> <<>>,
     total |-> 0, relaxed |-> FALSE, vector |-> "none", vector_candidates |-> 0]

\* localStorage: an item is absent or holds one stored value
Absent == <<>>

Stored(v) == <<v>>

\* the user ids a browser session can hold, as String(currentUser.id)
UserIds == {"1", "2"}

\* "const uid = currentUser?.id != null ? String(currentUser.id) : 'anonymous'"
Uids == UserIds \cup {"anonymous"}

TokenKey == <<"access_token">>

UserKey == <<"user">>

\* every history under one key, whoever is logged in
msgsKeyShared(uid) == <<"ai_coach", "anonymous", "messages">>

\* ai_coach:${uid}:profile, ai_coach:${uid}:conversation_id,
\* ai_coach:${uid}:messages
profileKey(uid) == <<"ai_coach", uid, "profile">>

convKey(uid) == <<"ai_coach", uid, "conversation_id">>

msgsKey(uid) == <<"ai_coach", uid, "messages">>

StorageKeys ==
    {TokenKey, UserKey}
        \cup {<<"ai_coach", u, f>> : u \in Uids, f \in {"profile", "conversation_id", "messages"}}

\* no AICoach instance mounted yet
NoCoach ==
    [inst |-> 0, uid |-> "anonymous", messages |-> <<>>, conversationId |-> "null",
     profile |-> "empty", input |-> <<>>, isLoading |-> FALSE, error |-> "null"]

\* no TextType on the page
NoTextType ==
    [text |-> <<>>, loop |-> FALSE, reverseMode |-> FALSE, displayedText |-> <<>>,
     currentCharIndex |-> 0, isDeleting |-> FALSE, currentTextIndex |-> 0,
     isVisible |-> TRUE, timer |-> "none", calls |-> <<>>]

\* the browser before anyone logs in
InitUiIdle ==
    /\ textType = NoTextType
    /\ route = "/login"
    /\ coach = NoCoach
    /\ localStorage = [k \in StorageKeys |-> Absent]
    /\ requests = <<>>

\* the recommender's tables before any feed request
\* no embedding pass running, none run yet
IdlePass ==
    [active |-> FALSE, batch |-> <<>>, done |-> <<>>, embedded |-> 0, passes |-> 0,
     interrupts |-> 0]

InitFeedIdle ==
    /\ article_embeddings = {}
    /\ embed_pass = IdlePass
    /\ prefs = [u \in Users |-> DefaultPrefs]
    /\ hidden = {}
    /\ feed_impressions = <<>>
    /\ vector_backend = "none"
    /\ response = NoResponse
    /\ feed_calls = 0
    /\ feed_budget = 0
    /\ InitUiIdle

(***************************************************************************)
(* Ingestion pipeline: RSS -> raw_feed_items -> news_articles.             *)
(***************************************************************************)
Sources == {1, 2}
SourceOrder == <<1, 2>>

\* "At 5 consecutive failures, set enabled=False"
AUTO_DISABLE_AT == 5

\* "Retries: 3 with exponential backoff (1s, 2s, 4s)"
FETCH_RETRIES == 3

\* bounds of the model
MaxEntries == 2
MaxRuns == 2
MaxHealthRuns == 6

Url(path, scheme, utm) == [path |-> path, scheme |-> scheme, utm |-> utm]

\* the tracking parameters stay in the URL
CanonicalUrlKeepsQuery(u) == [u EXCEPT !.scheme = "https"]

\* "Strip query params (utm_*, tracking params), normalize scheme to https"
CanonicalUrl(u) == [u EXCEPT !.scheme = "https", !.utm = FALSE]

\* SHA-256, taken as collision free on the values of the model
Sha256(x) == <<"sha256", x>>

\* "title similarity > 90% (Jaccard on word set)"
TitleSimilar(t1, t2) ==
    LET inter == Cardinality(t1 \cap t2)
        uni == Cardinality(t1 \cup t2)
    IN uni > 0 /\ 10 * inter > 9 * uni

\* TOPIC_RULES, its single-word keywords
TOPIC_RULES ==
    [strength     |-> {"strength", "powerlifting", "deadlift", "squat"},
     nutrition    |-> {"nutrition", "diet", "protein", "calories", "meal"},
     cardio       |-> {"cardio", "running", "hiit", "endurance", "aerobic"},
     recovery     |-> {"recovery", "sleep", "rest", "stretching"},
     bodybuilding |-> {"bodybuilding", "hypertrophy", "muscle", "bulk", "cut"},
     weight_loss  |-> {"lean", "deficit", "calorie"},
     mental       |-> {"mental", "mindset", "motivation", "stress", "anxiety"},
     injury       |-> {"injury", "rehab", "pain", "prevention"}]

TopicOrder ==
    <<"strength", "nutrition", "cardio", "recovery", "bodybuilding", "weight_loss",
      "mental", "injury">>

\* classify_topics: the topics, in table order, one of whose keywords occurs
ClassifyTopics(words) ==
    LET hit(t) == TOPIC_RULES[t] \cap words # {} IN SelectSeq(TopicOrder, hit)

\* content_hash = SHA-256(title + summary + (content or ''))
ContentHash(title, body) == Sha256(<<title, body>>)

\* feed entries: E1 and E2 are one page under two URLs, E3 repeats E1's text
\* under another URL, E4 is another article
E1 == [url |-> Url(1, "https", FALSE), title |-> {"squat", "tips"}, body |-> 1]
E2 == [url |-> Url(1, "http", TRUE), title |-> {"squat", "tips"}, body |-> 1]
E3 == [url |-> Url(2, "https", FALSE), title |-> {"squat", "tips"}, body |-> 1]
E4 == [url |-> Url(2, "http", TRUE), title |-> {"protein", "tips"}, body |-> 2]
FeedEntries == {E1, E2, E3, E4}

Payloads == UNION {[1..n -> FeedEntries] : n \in 1..MaxEntries}

ZeroStats == [new |-> 0, duplicate |-> 0, errors |-> 0]

IdleRun ==
    [in_flight |-> 0, queue |-> <<>>, cur |-> 0, attempt |-> 0, entries |-> <<>>,
     staged |-> FALSE, last_trigger |-> "none", stats |-> ZeroStats]

\* a news_articles row as the enrichment and persist stages write it
ArticleRow(s, e, day) ==
    [source_id |-> s, unique_hash |-> Sha256(CanonicalUrl(e.url)), title |-> e.title,
     content_hash |-> ContentHash(e.title, e.body), topics |-> ClassifyTopics(e.title),
     published_at |-> day, language |-> "en", quality_score |-> 5]

RawRow(s, e, status) ==
    [source_id |-> s, url |-> CanonicalUrl(e.url), url_hash |-> Sha256(CanonicalUrl(e.url)),
     title_raw |-> e.title, summary_raw |-> e.body, status |-> status]

\* the entry as the persist stage reads it back from its raw_feed_items row
EntryOf(row) == [url |-> row.url, title |-> row.title_raw, body |-> row.summary_raw]

\* the store the other subsystems start from: two seeded articles, no run
InitStore ==
    /\ enabled = [s \in Sources |-> TRUE]
    /\ fetch_error_count = [s \in Sources |-> 0]
    /\ last_fetched_at = [s \in Sources |-> 0]
    /\ raw_feed_items = <<>>
    /\ news_articles = <<ArticleRow(1, E1, 0), ArticleRow(2, E4, 0)>>
    /\ feed = [s \in Sources |-> <<>>]
    /\ run = IdleRun
    /\ runs_started = 0
    /\ run_budget = 0
    /\ InitFeedIdle

\* Whether a trigger starts a run: only when no run is executing.
MayStartAlways(in_flight) == TRUE

MayStart(in_flight) == in_flight = 0

\* "For each enabled source"
EnabledSources == LET on(s) == enabled[s] IN SelectSeq(SourceOrder, on)

\* the scheduler tick or the admin's fetch-now
Trigger(origin) ==
    /\ IF MayStart(run.in_flight)
       THEN /\ runs_started < run_budget
            /\ run' = [IdleRun EXCEPT !.in_flight = run.in_flight + 1,
                                      !.queue = EnabledSources,
                                      !.last_trigger = "started"]
            /\ runs_started' = runs_started + 1
       ELSE /\ run' = [run EXCEPT !.last_trigger = "ignored"]
            /\ UNCHANGED runs_started
    /\ UNCHANGED <<enabled, fetch_error_count, last_fetched_at, raw_feed_items,
                   news_articles, feed, run_budget, ledgerVars, popularity, feedVars>>

\* fetch_error_count reaches the threshold
ShouldDisableAbove(count) == count > AUTO_DISABLE_AT

ShouldDisable(count) == count >= AUTO_DISABLE_AT

\* the run gives up its other sources when one fails
QueueAbandoned(queue) == <<>>

\* "Skip source": the failed source leaves the queue, the others stay
QueueAfterFailure(queue) == Tail(queue)

\* httpx GET rss_url: an answer, a retry, or the failure after the last retry
FetchSource(ok) ==
    /\ run.in_flight > 0
    /\ run.cur = 0
    /\ run.queue # <<>>
    /\ LET s == Head(run.queue) IN
       IF ok
       THEN /\ run' = [run EXCEPT !.cur = s, !.entries = feed[s], !.attempt = 0,
                                  !.queue = Tail(@)]
            /\ UNCHANGED <<enabled, fetch_error_count>>
       ELSE IF run.attempt < FETCH_RETRIES
       THEN /\ run' = [run EXCEPT !.attempt = @ + 1]
            /\ UNCHANGED <<enabled, fetch_error_count>>
       ELSE /\ fetch_error_count' = [fetch_error_count EXCEPT ![s] = @ + 1]
            /\ enabled' = [enabled EXCEPT ![s] =
                             IF ShouldDisable(fetch_error_count[s] + 1) THEN FALSE ELSE @]
            /\ run' = [run EXCEPT !.attempt = 0, !.queue = QueueAfterFailure(@),
                                  !.stats.errors = @ + 1]
    /\ UNCHANGED <<last_fetched_at, raw_feed_items, news_articles, feed, runs_started,
                   run_budget, ledgerVars, popularity, feedVars>>

\* the feed answers with malformed XML: feedparser returns no entries and sets
\* bozo; the source is skipped and its error count incremented, without retry
FetchMalformed ==
    /\ run.in_flight > 0
    /\ run.cur = 0
    /\ run.queue # <<>>
    /\ LET s == Head(run.queue) IN
       /\ fetch_error_count' = [fetch_error_count EXCEPT ![s] = @ + 1]
       /\ enabled' = [enabled EXCEPT ![s] =
                        IF ShouldDisable(fetch_error_count[s] + 1) THEN FALSE ELSE @]
       /\ run' = [run EXCEPT !.attempt = 0, !.queue = QueueAfterFailure(@),
                             !.stats.errors = @ + 1]
    /\ UNCHANGED <<last_fetched_at, raw_feed_items, news_articles, feed, runs_started,
                   run_budget, ledgerVars, popularity, feedVars>>

\* the check that looks at processed rows only
HasRawProcessed(s, h) ==
    \E i \in DOMAIN raw_feed_items :
        /\ raw_feed_items[i].source_id = s
        /\ raw_feed_items[i].url_hash = h
        /\ raw_feed_items[i].status = "processed"

\* "Check raw_feed_items for url_hash"
HasRaw(s, h) ==
    \E i \in DOMAIN raw_feed_items :
        raw_feed_items[i].source_id = s /\ raw_feed_items[i].url_hash = h

HasSimilarTitle(s, title) ==
    \E i \in DOMAIN news_articles :
        news_articles[i].source_id = s /\ TitleSimilar(news_articles[i].title, title)

\* the pending rows only while this run has one of its own in hand
PendingRowsStaged(s) ==
    IF run.staged
    THEN {i \in DOMAIN raw_feed_items :
            raw_feed_items[i].source_id = s /\ raw_feed_items[i].status = "pending"}
    ELSE {}

\* "Upsert from raw_feed_items (status=pending)": the rows of the source that
\* wait for the persist stage, whichever run inserted them
PendingRows(s) ==
    {i \in DOMAIN raw_feed_items :
        raw_feed_items[i].source_id = s /\ raw_feed_items[i].status = "pending"}

\* one entry, first half: normalize, url_hash, "Exists in raw_feed_items?";
\* a known hash is skipped, a new one is inserted with status pending
StageEntry ==
    /\ run.in_flight > 0
    /\ run.cur # 0
    /\ run.entries # <<>>
    /\ PendingRows(run.cur) = {}
    /\ LET s == run.cur
           e == Head(run.entries)
           h == Sha256(CanonicalUrl(e.url))
       IN
       IF HasRaw(s, h)
       THEN /\ run' = [run EXCEPT !.entries = Tail(@), !.stats.duplicate = @ + 1]
            /\ UNCHANGED raw_feed_items
       ELSE /\ raw_feed_items' = Append(raw_feed_items, RawRow(s, e, "pending"))
            /\ run' = [run EXCEPT !.entries = Tail(@), !.staged = TRUE]
    /\ UNCHANGED <<enabled, fetch_error_count, last_fetched_at, news_articles, feed,
                   runs_started, run_budget, ledgerVars, popularity, feedVars>>

\* one pending row, second half: the similar title is marked duplicate;
\* otherwise enrich, upsert news_articles, and the raw row is processed
PersistEntry ==
    /\ run.in_flight > 0
    /\ run.cur # 0
    /\ PendingRows(run.cur) # {}
    /\ LET s == run.cur
           i == CHOOSE k \in PendingRows(s) : \A j \in PendingRows(s) : k <= j
           e == EntryOf(raw_feed_items[i])
       IN
       IF HasSimilarTitle(s, e.title)
       THEN /\ raw_feed_items' = [raw_feed_items EXCEPT ![i].status = "duplicate"]
            /\ run' = [run EXCEPT !.staged = FALSE, !.stats.duplicate = @ + 1]
            /\ UNCHANGED <<news_articles, popularity>>
       ELSE /\ raw_feed_items' = [raw_feed_items EXCEPT ![i].status = "processed"]
            /\ news_articles' = Append(news_articles, ArticleRow(s, e, now))
            /\ popularity' = Append(popularity, 0)
            /\ run' = [run EXCEPT !.staged = FALSE, !.stats.new = @ + 1]
    /\ UNCHANGED <<enabled, fetch_error_count, last_fetched_at, feed, runs_started,
                   run_budget, ledgerVars, feedVars>>

\* one pending row whose entry cannot be normalized or enriched: the raw row is
\* kept with status error, the run counts the error and goes on
FailEntry ==
    /\ run.in_flight > 0
    /\ run.cur # 0
    /\ PendingRows(run.cur) # {}
    /\ LET s == run.cur
           i == CHOOSE k \in PendingRows(s) : \A j \in PendingRows(s) : k <= j
       IN
       /\ raw_feed_items' = [raw_feed_items EXCEPT ![i].status = "error"]
       /\ run' = [run EXCEPT !.staged = FALSE, !.stats.errors = @ + 1]
    /\ UNCHANGED <<enabled, fetch_error_count, last_fetched_at, news_articles, feed,
                   runs_started, run_budget, ledgerVars, popularity, feedVars>>

\* the reset forgotten
CountAfterSuccessKept(count) == count

\* "Reset fetch_error_count to 0 on success"
CountAfterSuccess(count) == 0

\* the source is done: last_fetched_at, and fetch_error_count back to 0
FinishSource ==
    /\ run.in_flight > 0
    /\ run.cur # 0
    /\ run.entries = <<>>
    /\ PendingRows(run.cur) = {}
    /\ last_fetched_at' = [last_fetched_at EXCEPT ![run.cur] = runs_started]
    /\ fetch_error_count' = [fetch_error_count EXCEPT ![run.cur] = CountAfterSuccess(@)]
    /\ run' = [run EXCEPT !.cur = 0]
    /\ UNCHANGED <<enabled, raw_feed_items, news_articles, feed, runs_started,
                   run_budget, ledgerVars, popularity, feedVars>>

\* the run returns its statistics
FinishRun ==
    /\ run.in_flight > 0
    /\ run.cur = 0
    /\ run.queue = <<>>
    /\ run' = [run EXCEPT !.in_flight = @ - 1]
    /\ UNCHANGED <<enabled, fetch_error_count, last_fetched_at, raw_feed_items,
                   news_articles, feed, runs_started, run_budget, ledgerVars, popularity, feedVars>>

\* the run is cancelled or its process dies: its position is lost, the tables
\* keep what was written
InterruptRun ==
    /\ run.in_flight > 0
    /\ run' = [IdleRun EXCEPT !.last_trigger = "interrupted"]
    /\ UNCHANGED <<enabled, fetch_error_count, last_fetched_at, raw_feed_items,
                   news_articles, feed, runs_started, run_budget, ledgerVars, popularity,
                   feedVars>>

\* PATCH /admin/news/sources/{id}/toggle on a disabled source
ReEnable(s) ==
    /\ ~enabled[s]
    /\ enabled' = [enabled EXCEPT ![s] = TRUE]
    /\ UNCHANGED <<fetch_error_count, last_fetched_at, raw_feed_items, news_articles,
                   feed, run, runs_started, run_budget, ledgerVars, popularity, feedVars>>

InitLedgerIdle ==
    /\ now = 0
    /\ user_events = <<>>
    /\ req = [w \in Workers |-> IdleReq]

InitSources ==
    /\ fetch_error_count = [s \in Sources |-> 0]
    /\ last_fetched_at = [s \in Sources |-> 0]
    /\ raw_feed_items = <<>>
    /\ news_articles = <<>>
    /\ popularity = <<>>
    /\ run = IdleRun
    /\ runs_started = 0
    /\ InitLedgerIdle
    /\ InitFeedIdle

\* an empty store, source 1 serving any payload, source 2 created enabled or not
InitIngest ==
    /\ InitSources
    /\ enabled \in {f \in [Sources -> BOOLEAN] : f[1]}
    /\ \E p \in Payloads : feed = [s \in Sources |-> IF s = 1 THEN p ELSE <<E1>>]
    /\ run_budget = MaxRuns

\* an empty store, fixed payloads, many runs
InitHealth ==
    /\ InitSources
    /\ enabled = [s \in Sources |-> TRUE]
    /\ feed = [s \in Sources |-> IF s = 1 THEN <<E1, E2>> ELSE <<E4>>]
    /\ run_budget = MaxHealthRuns

NextIngest ==
    \/ \E origin \in {"scheduler", "admin"} : Trigger(origin)
    \/ \E ok \in BOOLEAN : FetchSource(ok)
    \/ StageEntry
    \/ PersistEntry
    \/ FinishSource
    \/ FinishRun
    \/ \E s \in Sources : ReEnable(s)

SpecIngest == InitIngest /\ [][NextIngest]_vars

SpecHealth == InitHealth /\ [][NextIngest]_vars

\* the pipeline with runs that may be interrupted at any step
NextInterrupt ==
    \/ Trigger("scheduler")
    \/ FetchSource(TRUE)
    \/ StageEntry
    \/ PersistEntry
    \/ FinishSource
    \/ FinishRun
    \/ InterruptRun

\* both sources enabled, a payload for source 1, a budget of runs
InitInterrupt ==
    /\ InitSources
    /\ enabled = [s \in Sources |-> TRUE]
    /\ \E p \in Payloads : feed = [s \in Sources |-> IF s = 1 THEN p ELSE <<E1>>]
    /\ run_budget = MaxRuns

SpecInterrupt == InitInterrupt /\ [][NextInterrupt]_vars

\* the pipeline with sources and entries that may fail
NextFailures ==
    \/ Trigger("scheduler")
    \/ \E ok \in BOOLEAN : FetchSource(ok)
    \/ FetchMalformed
    \/ StageEntry
    \/ PersistEntry
    \/ FailEntry
    \/ FinishSource
    \/ FinishRun

\* an empty store, fixed payloads, a budget of runs
InitFailures ==
    /\ InitSources
    /\ enabled = [s \in Sources |-> TRUE]
    /\ feed = [s \in Sources |-> IF s = 1 THEN <<E1, E4>> ELSE <<E3>>]
    /\ run_budget = MaxRuns

\* the scheduler's interval job and the run's sequential loop keep going: a
\* step that can be taken is taken
SpecFailures == InitFailures /\ [][NextFailures]_vars /\ WF_vars(NextFailures)

(***************************************************************************)
(* Properties of the ingestion pipeline.                                   *)
(***************************************************************************)
RawOf(rows, s) == LET mine(r) == r.source_id = s IN SelectSeq(rows, mine)

RawCount(s, path) ==
    Cardinality({i \in DOMAIN raw_feed_items :
                   raw_feed_items[i].source_id = s /\ raw_feed_items[i].url.path = path})

OneRawPerUrl ==
    \A s \in Sources :
        last_fetched_at[s] > 0 =>
            \A i \in DOMAIN feed[s] : RawCount(s, feed[s][i].url.path) = 1

OneArticlePerContent ==
    \A i, j \in DOMAIN news_articles :
        (/\ news_articles[i].source_id = news_articles[j].source_id
         /\ news_articles[i].content_hash = news_articles[j].content_hash) => i = j

SecondRunAddsNothing ==
    \A s \in Sources :
        last_fetched_at[s] > 0 =>
            /\ RawOf(raw_feed_items', s) = RawOf(raw_feed_items, s)
            /\ RawOf(news_articles', s) = RawOf(news_articles, s)

\* C1: once a source's payload has been fetched and processed, raw_feed_items
\* holds exactly one row for each distinct canonical URL of the payload,
\* news_articles holds at most one row per (source, content hash), and
\* processing the same payload again adds no raw_feed_items row and no
\* news_articles row of that source.
C1_IdempotentIngestion ==
    /\ [](OneRawPerUrl /\ OneArticlePerContent)
    /\ [][SecondRunAddsNothing]_vars

\* the second run is over: source 1 served one page under two URLs and has
\* one raw row and one article
C1_Witness ==
    /\ runs_started = 2
    /\ run.in_flight = 0
    /\ last_fetched_at[1] = 2
    /\ feed[1] = <<E1, E2>>
    /\ Len(RawOf(raw_feed_items, 1)) = 1
    /\ Len(RawOf(news_articles, 1)) = 1
    /\ run.stats.duplicate >= 2

\* C8: at most one ingestion run is in flight, and a run starts only when
\* none is executing: a trigger that arrives during a run starts nothing and
\* leaves the run's position and the tables as they are.
C8_SingleRun ==
    /\ [](run.in_flight <= 1)
    /\ [][/\ (runs_started' # runs_started => run.in_flight = 0)
          /\ (run'.last_trigger = "ignored" /\ run.last_trigger # "ignored" =>
                /\ run.in_flight = 1
                /\ run' = [run EXCEPT !.last_trigger = "ignored"]
                /\ UNCHANGED <<raw_feed_items, news_articles, enabled,
                               fetch_error_count, last_fetched_at, runs_started>>)]_vars

\* a trigger arrived while the first run was fetching its second source
C8_Witness ==
    /\ run.in_flight = 1
    /\ run.last_trigger = "ignored"
    /\ run.cur = 2
    /\ runs_started = 1

\* C9: the step that takes a source's fetch_error_count to 5 (or beyond) sets
\* enabled to false, and a source stays out of every run until it is enabled
\* again: every source a run is fetching or still has to fetch is enabled.
C9_AutoDisable ==
    /\ [](\A s \in Sources :
            (s = run.cur \/ s \in Range(run.queue)) => enabled[s])
    /\ [][\A s \in Sources :
            (fetch_error_count'[s] # fetch_error_count[s]
               /\ fetch_error_count'[s] >= 5) => ~enabled'[s]]_vars

\* source 1 failed five runs in a row and was disabled; the sixth run is
\* fetching source 2 and has not touched source 1
C9_Witness ==
    /\ fetch_error_count[1] = 5
    /\ ~enabled[1]
    /\ runs_started = 6
    /\ run.in_flight = 1
    /\ run.cur = 2
    /\ run.stats.errors = 0

\* C18: a fetch that still fails after its 3 retries adds exactly one to the
\* source's fetch_error_count and a retry adds nothing; the end of a
\* successful fetch sets the counter to zero and last_fetched_at to the run.
C18_ConsecutiveFailures ==
    [][\A s \in Sources :
         /\ (fetch_error_count'[s] > fetch_error_count[s] =>
               /\ fetch_error_count'[s] = fetch_error_count[s] + 1
               /\ run.attempt = 3
               /\ run.queue # <<>> /\ Head(run.queue) = s)
         /\ (run'.attempt > run.attempt => fetch_error_count' = fetch_error_count)
         /\ (fetch_error_count'[s] < fetch_error_count[s] => run.cur = s)
         /\ ((run.cur = s /\ run'.cur = 0 /\ run'.in_flight = run.in_flight) =>
               /\ fetch_error_count'[s] = 0
               /\ last_fetched_at'[s] = runs_started)]_vars

\* three runs: source 2 was fetched in the first and failed in the next two,
\* source 1 was fetched in the third
C18_Witness ==
    /\ runs_started = 3
    /\ run.in_flight = 0
    /\ fetch_error_count[1] = 0
    /\ last_fetched_at[1] = 3
    /\ fetch_error_count[2] = 2
    /\ last_fetched_at[2] = 1

RawFieldsOf(row) ==
    <<row.source_id, row.url, row.url_hash, row.title_raw, row.summary_raw>>

\* C19: a raw_feed_items row is created pending, keeps its raw fields, changes
\* only its status and only from pending to processed, duplicate or error;
\* no row is removed and (source, url_hash) is unique.
C19_RawEntryLifecycle ==
    /\ [](\A i, j \in DOMAIN raw_feed_items :
            (/\ raw_feed_items[i].source_id = raw_feed_items[j].source_id
             /\ raw_feed_items[i].url_hash = raw_feed_items[j].url_hash) => i = j)
    /\ [][/\ Len(raw_feed_items') >= Len(raw_feed_items)
          /\ \A i \in DOMAIN raw_feed_items' :
                IF i \in DOMAIN raw_feed_items
                THEN /\ RawFieldsOf(raw_feed_items'[i]) = RawFieldsOf(raw_feed_items[i])
                     /\ \/ raw_feed_items'[i].status = raw_feed_items[i].status
                        \/ /\ raw_feed_items[i].status = "pending"
                           /\ raw_feed_items'[i].status \in
                                {"processed", "duplicate", "error"}
                ELSE raw_feed_items'[i].status = "pending"]_vars

\* source 1 served one text under two URLs twice: one row processed, one
\* duplicate, both still as the first run left them
C19_Witness ==
    /\ runs_started = 2
    /\ run.in_flight = 0
    /\ last_fetched_at[1] = 2
    /\ feed[1] = <<E1, E3>>
    /\ Len(RawOf(raw_feed_items, 1)) = 2
    /\ RawOf(raw_feed_items, 1)[1].status = "processed"
    /\ RawOf(raw_feed_items, 1)[2].status = "duplicate"

FailureStep == run.in_flight > 0 /\ run'.stats.errors > run.stats.errors

\* the failure of the source at the head of the queue: counted against it,
\* the other sources keep their counts and their place in the queue
SourceFailureIsolated ==
    LET s == Head(run.queue) IN
    /\ run.cur = 0 /\ run.queue # <<>>
    /\ fetch_error_count'[s] = fetch_error_count[s] + 1
    /\ \A t \in Sources \ {s} :
          fetch_error_count'[t] = fetch_error_count[t] /\ enabled'[t] = enabled[t]
    /\ run'.queue = Tail(run.queue)
    /\ run'.cur = 0

\* the failure of one entry of the current source: its raw row goes from
\* pending to error, the other rows, the remaining entries and the queue stay
EntryFailureIsolated ==
    /\ run.cur # 0
    /\ Len(raw_feed_items') = Len(raw_feed_items)
    /\ \E i \in DOMAIN raw_feed_items :
          /\ raw_feed_items[i].source_id = run.cur
          /\ raw_feed_items[i].status = "pending"
          /\ raw_feed_items'[i] = [raw_feed_items[i] EXCEPT !.status = "error"]
          /\ \A j \in DOMAIN raw_feed_items \ {i} : raw_feed_items'[j] = raw_feed_items[j]
    /\ run'.entries = run.entries
    /\ run'.queue = run.queue
    /\ run'.cur = run.cur
    /\ UNCHANGED <<fetch_error_count, enabled>>

\* the run returns: every source still enabled was fetched by this run or has
\* a failure counted against it
RunCoveredSources ==
    \A s \in Sources :
        enabled[s] => last_fetched_at[s] = runs_started \/ fetch_error_count[s] > 0

\* the source is done: every entry of its payload has a raw row
SourceCoveredEntries ==
    \A k \in DOMAIN feed[run.cur] :
        HasRaw(run.cur, Sha256(CanonicalUrl(feed[run.cur][k].url)))

\* C23: a failure of a source (fetch failed after the retries, timeout,
\* malformed XML) or of one entry adds one to the run's error statistic and is
\* recorded against that source only (its fetch_error_count, or the error
\* status of the entry's raw row); the run stays in flight, the other sources
\* stay queued and the remaining entries stay to be processed; a source that
\* finishes has a raw row for each of its entries, a run that returns has
\* visited every enabled source; every run returns and the scheduler starts
\* each run of its budget.
C23_FailuresIsolated ==
    /\ [][/\ FailureStep =>
               /\ run'.stats.errors = run.stats.errors + 1
               /\ run'.in_flight = run.in_flight
               /\ UNCHANGED <<news_articles, runs_started>>
               /\ IF raw_feed_items' = raw_feed_items
                  THEN SourceFailureIsolated
                  ELSE EntryFailureIsolated
          /\ (run.cur # 0 /\ run'.cur = 0 /\ run'.in_flight = run.in_flight)
                => SourceCoveredEntries
          /\ (run.in_flight > 0 /\ run'.in_flight = 0) => RunCoveredSources]_vars
    /\ (run.in_flight > 0) ~> (run.in_flight = 0)
    /\ <>(runs_started = run_budget)

\* a run in which an entry of source 1 failed and its next entry was
\* processed, source 2 failed, and the scheduler has started the next run
C23_Witness ==
    /\ runs_started = 2
    /\ fetch_error_count[2] = 1
    /\ last_fetched_at[1] = 1
    /\ \E i, j \in DOMAIN raw_feed_items :
          /\ i < j
          /\ raw_feed_items[i].source_id = 1 /\ raw_feed_items[i].status = "error"
          /\ raw_feed_items[j].source_id = 1 /\ raw_feed_items[j].status = "processed"
    /\ Len(news_articles) = 1

(***************************************************************************)
(* Feedback ledger: POST /news/events.                                     *)
(***************************************************************************)
ArticleIds == {1, 2}
Sessions == {"s1", "s2"}
\* user_events.event_type
EventKinds == {"impression", "click", "save", "unsave", "hide", "unhide", "dwell"}

\* EventItem.event_type: Literal[...] of the request schema
SchemaKinds == {"impression", "click", "save", "unsave", "hide", "dwell"}

\* EventBatch.events: max_length
MAX_BATCH == 100

\* dedup window, minutes
DEDUP_WINDOW == 5

\* bounds of the model
MaxBatch == 2
MaxEvents == 2

\* the instants the clock visits
TimePoints == {0, 4, 6}

\* the weights without the unsave row
PopularityDeltaNoUnsave(kind) ==
    CASE kind = "click"  -> 1
      [] kind = "save"   -> 3
      [] kind = "hide"   -> -5
      [] OTHER           -> 0

\* popularity weight of one event
PopularityDelta(kind) ==
    CASE kind = "click"  -> 1
      [] kind = "save"   -> 3
      [] kind = "unsave" -> -1
      [] kind = "hide"   -> -5
      [] OTHER           -> 0

\* the request bodies the two specifications of the ledger draw from
AllKindItems ==
    [article_id : {1}, event_type : EventKinds, session_id : {"s1"}]
    \cup {[article_id |-> 2, event_type |-> "click", session_id |-> "s1"],
          [article_id |-> 1, event_type |-> "click", session_id |-> "s2"]}
ClickSaveItems == [article_id : {1}, event_type : {"click", "save"}, session_id : {"s1"}]

Batches(items) == UNION {[1..n -> items] : n \in 1..MaxBatch}

\* a batch of n copies of one click
BatchOfSize(n) ==
    SubSeq([i \in 1..n |-> [article_id |-> 1, event_type |-> "click", session_id |-> "s1"]],
           1, n)

\* the largest batch the schema accepts, and the smallest it rejects
EdgeBatches == {BatchOfSize(MAX_BATCH), BatchOfSize(MAX_BATCH + 1)}

\* the validation without the size cap
ValidBatchAnySize(batch) ==
    \A i \in DOMAIN batch : batch[i].event_type \in SchemaKinds

\* Pydantic validation of EventBatch: the size cap and the event_type literal
ValidBatch(batch) ==
    /\ Len(batch) <= MAX_BATCH
    /\ \A i \in DOMAIN batch : batch[i].event_type \in SchemaKinds

\* the cutoff compared the wrong way round
IsDuplicateOutside(log, u, e, t) ==
    \E i \in DOMAIN log :
        /\ log[i].user_id = u
        /\ log[i].article_id = e.article_id
        /\ log[i].event_type = e.event_type
        /\ log[i].session_id = e.session_id
        /\ t - log[i].created_at > DEDUP_WINDOW

\* "Same (user_id, article_id, event_type, session_id) within 5 minutes"
IsDuplicate(log, u, e, t) ==
    \E i \in DOMAIN log :
        /\ log[i].user_id = u
        /\ log[i].article_id = e.article_id
        /\ log[i].event_type = e.event_type
        /\ log[i].session_id = e.session_id
        /\ t - log[i].created_at < DEDUP_WINDOW

\* a read-modify-write on the value the handler loaded before the write
NewPopularityStale(current, read, delta) == read + delta

\* The popularity write of one accepted event: an atomic delta on the row's
\* current value, never on the value the handler read earlier.
NewPopularity(current, read, delta) == current + delta

\* every event recorded, the duplicates too
LogAfterAll(log, row, dup) == Append(log, row)

\* "Insert accepted events into user_events": a duplicate is skipped
LogAfter(log, row, dup) == IF dup THEN log ELSE Append(log, row)

\* events submitted and not yet applied, over all calls in flight
Pending ==
    SumSeq([w \in 1..Cardinality(Workers) |->
              IF req[w].pc \in {"check", "apply"}
              THEN Len(req[w].events) - req[w].idx + 1 ELSE 0])

\* POST /news/events arrives: validation, then the per-event loop starts
SubmitEvents(w, u, batch) ==
    /\ req[w].pc = "idle"
    /\ \/ Len(batch) > MaxBatch
       \/ Len(user_events) + Pending + Len(batch) <= MaxEvents
    /\ req' = [req EXCEPT ![w] =
                 IF ValidBatch(batch)
                 THEN [IdleReq EXCEPT !.pc = "check", !.user_id = u,
                                      !.events = batch, !.idx = 1]
                 ELSE [IdleReq EXCEPT !.pc = "rejected", !.user_id = u,
                                      !.events = batch]]
    /\ UNCHANGED <<now, user_events, popularity, ingestVars, feedVars>>

\* the dedup query of the current event, and the load of its article row
CheckEvent(w) ==
    /\ req[w].pc = "check"
    /\ LET e == req[w].events[req[w].idx] IN
       req' = [req EXCEPT ![w].pc = "apply",
                          ![w].is_dup = IsDuplicate(user_events, req[w].user_id, e, now),
                          ![w].pop_read = popularity[e.article_id]]
    /\ UNCHANGED <<now, user_events, popularity, ingestVars, feedVars>>

\* a duplicate is counted and skipped; an accepted event moves the popularity
\* and is inserted into user_events
ApplyEvent(w) ==
    /\ req[w].pc = "apply"
    /\ LET e == req[w].events[req[w].idx]
           last == req[w].idx = Len(req[w].events)
           nextpc == IF last THEN "done" ELSE "check"
           row == [user_id |-> req[w].user_id, article_id |-> e.article_id,
                   event_type |-> e.event_type, session_id |-> e.session_id,
                   created_at |-> now]
       IN
       /\ user_events' = LogAfter(user_events, row, req[w].is_dup)
       /\ IF req[w].is_dup
          THEN /\ req' = [req EXCEPT ![w].pc = nextpc, ![w].idx = @ + 1,
                                     ![w].duplicates_skipped = @ + 1]
               /\ UNCHANGED popularity
          ELSE /\ popularity' = [popularity EXCEPT ![e.article_id] =
                                   NewPopularity(@, req[w].pop_read,
                                                 PopularityDelta(e.event_type))]
               /\ req' = [req EXCEPT ![w].pc = nextpc, ![w].idx = @ + 1,
                                     ![w].accepted = @ + 1]
    /\ UNCHANGED <<now, ingestVars, feedVars>>

\* the response {accepted, duplicates_skipped}, or the 422, leaves the server
Respond(w) ==
    /\ req[w].pc \in {"done", "rejected"}
    /\ req' = [req EXCEPT ![w] = IdleReq]
    /\ UNCHANGED <<now, user_events, popularity, ingestVars, feedVars>>

\* time passes
Tick(points) ==
    /\ \E t \in points : t > now /\ \A t2 \in points : t2 > now => t <= t2
    /\ now' = CHOOSE t \in points : t > now /\ \A t2 \in points : t2 > now => t <= t2
    /\ UNCHANGED <<user_events, popularity, req, ingestVars, feedVars>>

InitEvents ==
    /\ now = 0
    /\ user_events = <<>>
    /\ popularity = [a \in ArticleIds |-> 0]
    /\ req = [w \in Workers |-> IdleReq]
    /\ InitStore

\* one call at a time, every event kind
NextEvents ==
    \/ \E batch \in Batches(AllKindItems) : SubmitEvents(1, 1, batch)
    \/ CheckEvent(1)
    \/ ApplyEvent(1)
    \/ Respond(1)
    \/ Tick(TimePoints)

SpecEvents == InitEvents /\ [][NextEvents]_vars

\* two calls in flight at once
NextConcurrent ==
    \/ \E w \in Workers, u \in Users, batch \in Batches(ClickSaveItems) :
          SubmitEvents(w, u, batch)
    \/ \E w \in Workers : CheckEvent(w)
    \/ \E w \in Workers : ApplyEvent(w)
    \/ \E w \in Workers : Respond(w)
    \/ Tick(TimePoints)

SpecConcurrent == InitEvents /\ [][NextConcurrent]_vars

\* one call at a time, small batches and the two batches around the size cap
NextBatch ==
    \/ \E batch \in Batches(ClickSaveItems) \cup EdgeBatches : SubmitEvents(1, 1, batch)
    \/ CheckEvent(1)
    \/ ApplyEvent(1)
    \/ Respond(1)
    \/ Tick(TimePoints)

SpecBatch == InitEvents /\ [][NextBatch]_vars

\* C12: a submit_events batch of more than 100 events is rejected in the step
\* that receives it; from its arrival to its answer no user_events row is
\* appended and no popularity changes, and none of its events is ever processed.
C12_OversizeRejected ==
    /\ [](\A w \in Workers : Len(req[w].events) > 100 => req[w].pc = "rejected")
    /\ [][\A w \in Workers :
            (Len(req[w].events) > 100 \/ Len(req'[w].events) > 100) =>
                /\ user_events' = user_events
                /\ popularity' = popularity]_vars

\* a batch of 101 events stands rejected after an earlier batch was accepted
C12_Witness ==
    /\ req[1].pc = "rejected"
    /\ Len(req[1].events) = 101
    /\ user_events # <<>>
    /\ popularity[1] > 0

(***************************************************************************)
(* Recommender: GET /news/recommended and POST /news/articles/{id}/hide.   *)
(***************************************************************************)
\* minutes in a day: the clock counts minutes
DAY == 1440

\* candidate pools: sizes and windows
VECTOR_TOP_K == 50
TOPIC_POOL_SIZE == 30
TOPIC_POOL_DAYS == 14
TOP_TOPICS == 3
TRENDING_POOL_SIZE == 20
TRENDING_POOL_DAYS == 3
NEWEST_POOL_SIZE == 20

\* filters
SEEN_FILTER_DAYS == 1
FRESHNESS_WINDOW == 14
RELAXED_FRESHNESS_WINDOW == 30

\* ranking weights, in hundredths
W_SIMILARITY == 30
W_RECENCY == 25
W_PREFERENCE == 20
W_POPULARITY == 15
W_QUALITY == 10
P_ALREADY_SEEN == 50
P_SOURCE_FATIGUE == 20
SEEN_PENALTY_DAYS == 7
FATIGUE_AT == 3

\* diversify(ranked, max_per_source=2, max_per_topic=3)
MAX_PER_SOURCE == 2
MAX_PER_TOPIC == 3

\* bounds of the model
MaxPageSize == 4
MaxFeedCalls == 2
MaxCatalog == 5

\* ?page&page_size of the requests followed
PageSizes == {1, MaxPageSize}
Pages == {1, 2}

\* exp(-0.1 * days_old), in hundredths, for 0..30 days
RecencyTable ==
    <<100, 90, 82, 74, 67, 61, 55, 50, 45, 41, 37, 33, 30, 27, 25, 22, 20, 18, 17, 15,
      14, 12, 11, 10, 9, 8, 7, 7, 6, 6, 5>>

Min(a, b) == IF a < b THEN a ELSE b
Max(a, b) == IF a > b THEN a ELSE b

\* the first n elements
Take(s, n) == SubSeq(s, 1, Min(Len(s), n))

\* the function f on 1..n as a sequence value
AsSeq(f) == SubSeq(f, 1, Len(f))

\* sorted(s, reverse=True) on the keys ks, ks[i] the key of s[i]: descending
\* and stable
SortDesc(s, ks) ==
    LET n == Len(s)
        pos(i) == 1 + Cardinality({j \in 1..n :
                                     \/ ks[j] > ks[i]
                                     \/ ks[j] = ks[i] /\ j < i})
        at == AsSeq([i \in 1..n |-> pos(i)])
    IN AsSeq([p \in 1..n |-> s[CHOOSE i \in 1..n : at[i] = p]])

\* deduplicate by article_id, the first occurrence stays
Dedup(s) ==
    LET first(i) == \A j \in 1..(i - 1) : s[j] # s[i]
        idx == SelectSeq(AsSeq([i \in 1..Len(s) |-> i]), first)
    IN AsSeq([k \in 1..Len(idx) |-> s[idx[k]]])

\* the ids of news_articles, in table order
AllIds == AsSeq([i \in 1..Len(news_articles) |-> i])

AgeOf(a) == now - news_articles[a].published_at

DaysOld(a) == AgeOf(a) \div DAY

TopicsOf(a) == Range(news_articles[a].topics)

\* the user's top topics: the first three of the explicit preferences
TopTopics(u) == Range(Take(prefs[u].topics, TOP_TOPICS))

\* cosine of the user's topic keywords and the article, in hundredths: the
\* share of common topics
Similarity(u, a) ==
    LET both == TopicsOf(a) \cap TopTopics(u)
        any == TopicsOf(a) \cup TopTopics(u)
    IN IF any = {} THEN 0 ELSE (100 * Cardinality(both)) \div Cardinality(any)

\* Vector pool: search top-K; the no-op backend and every failure give nothing
VectorPool(u, vec) ==
    IF vector_backend = "none" \/ vec # "ok"
    THEN <<>>
    ELSE LET sim == AsSeq([i \in DOMAIN AllIds |-> Similarity(u, AllIds[i])])
         IN Take(SortDesc(AllIds, sim), VECTOR_TOP_K)

\* Topic pool: articles matching the user's top 3 topics, last 14 days
TopicPool(u) ==
    LET match(a) == /\ TopicsOf(a) \cap TopTopics(u) # {}
                    /\ AgeOf(a) <= TOPIC_POOL_DAYS * DAY
    IN Take(SelectSeq(AllIds, match), TOPIC_POOL_SIZE)

\* Trending pool: highest popularity_score, last 3 days
TrendingPool ==
    LET recent(a) == AgeOf(a) <= TRENDING_POOL_DAYS * DAY
        ids == SelectSeq(AllIds, recent)
        pop == AsSeq([i \in DOMAIN ids |-> popularity[ids[i]]])
    IN Take(SortDesc(ids, pop), TRENDING_POOL_SIZE)

\* Newest pool: most recent articles, no topic filter
NewestPool ==
    LET pub == AsSeq([i \in DOMAIN AllIds |-> news_articles[AllIds[i]].published_at])
    IN Take(SortDesc(AllIds, pub), NEWEST_POOL_SIZE)

\* an empty vector pool ends the request with nothing
MergeNeedsVector(vector, topic, trending, newest) ==
    IF vector = <<>> THEN <<>> ELSE Dedup(vector \o topic \o trending \o newest)

\* "Merge all pools -> deduplicate by article_id"
Merge(vector, topic, trending, newest) == Dedup(vector \o topic \o trending \o newest)

\* the article is in anybody's feed_impressions of the last `days` days
SeenByAnyone(u, a, days) ==
    \E i \in DOMAIN feed_impressions :
        /\ feed_impressions[i].article_id = a
        /\ now - feed_impressions[i].created_at <= days * DAY

\* the article is in the user's feed_impressions of the last `days` days
SeenWithin(u, a, days) ==
    \E i \in DOMAIN feed_impressions :
        /\ feed_impressions[i].user_id = u
        /\ feed_impressions[i].article_id = a
        /\ now - feed_impressions[i].created_at <= days * DAY

\* filters 2 to 5: already seen, blocked keyword, disabled source, language
PassesFixed(u, a) ==
    /\ ~SeenWithin(u, a, SEEN_FILTER_DAYS)
    /\ prefs[u].blocked_keywords \cap news_articles[a].title = {}
    /\ enabled[news_articles[a].source_id]
    /\ news_articles[a].language = prefs[u].language

\* filter 1: article_id in user_hidden_articles; the retry skips it
HiddenFilter(u, a, skip_hidden) == skip_hidden \/ <<u, a>> \notin hidden

\* "Remove candidates that match ANY of" the six filters
Filter(cands, u, window, skip_hidden) ==
    LET keep(a) == /\ HiddenFilter(u, a, skip_hidden)
                   /\ PassesFixed(u, a)
                   /\ AgeOf(a) <= window * DAY
    IN SelectSeq(cands, keep)

\* the strict filters only
FilterNoRetry(cands, u) ==
    [items |-> Filter(cands, u, FRESHNESS_WINDOW, FALSE), relaxed |-> FALSE]

\* "Feed returns 0 articles after filtering": relax the freshness window to 30
\* days, skip the hidden filter, try again
FilterWithRetry(cands, u) ==
    LET strict == Filter(cands, u, FRESHNESS_WINDOW, FALSE)
    IN IF strict # <<>>
       THEN [items |-> strict, relaxed |-> FALSE]
       ELSE [items |-> Filter(cands, u, RELAXED_FRESHNESS_WINDOW, TRUE), relaxed |-> TRUE]

\* the user's last feed: the impressions of the latest request
LastFeedOf(u) ==
    LET mine == {i \in DOMAIN feed_impressions : feed_impressions[i].user_id = u}
        latest == {i \in mine : \A j \in mine :
                     feed_impressions[j].created_at <= feed_impressions[i].created_at}
    IN latest

\* "If user saw 3+ articles from same source in last feed"
SourceFatigue(u, a) ==
    Cardinality({i \in LastFeedOf(u) :
                   news_articles[feed_impressions[i].article_id].source_id
                     = news_articles[a].source_id}) >= FATIGUE_AT

\* the match granted to every article that has a topic
PreferenceMatchAnyTopic(u, a) == IF TopicsOf(a) # {} THEN 100 ELSE 0

\* preference_match, in hundredths: "1.0 if article topics overlap user topics,
\* else 0.0"
PreferenceMatch(u, a) == IF TopicsOf(a) \cap TopTopics(u) # {} THEN 100 ELSE 0

\* the ranking formula, in ten-thousandths
Score(u, a, vector) ==
    LET similarity == IF a \in Range(vector) THEN Similarity(u, a) ELSE 0
        recency == IF DaysOld(a) < 0 THEN 100
                   ELSE IF DaysOld(a) >= Len(RecencyTable) THEN 0
                   ELSE RecencyTable[DaysOld(a) + 1]
        preference == PreferenceMatch(u, a)
        pop == Min(100, Max(0, popularity[a]))
        quality == 10 * news_articles[a].quality_score
        seen == IF SeenWithin(u, a, SEEN_PENALTY_DAYS) THEN 100 ELSE 0
        fatigue == IF SourceFatigue(u, a) THEN 100 ELSE 0
    IN W_SIMILARITY * similarity + W_RECENCY * recency + W_PREFERENCE * preference
       + W_POPULARITY * pop + W_QUALITY * quality
       - P_ALREADY_SEEN * seen - P_SOURCE_FATIGUE * fatigue

\* primary_topic = article.topics[0] if article.topics else 'general'
PrimaryTopic(a) ==
    IF news_articles[a].topics = <<>> THEN "general" ELSE news_articles[a].topics[1]

\* the source test one too late
SourceFullAbove(count) == count > MAX_PER_SOURCE

\* if source_count[article.source_id] >= max_per_source: continue
SourceFull(count) == count >= MAX_PER_SOURCE

\* if topic_count[primary_topic] >= max_per_topic: continue
TopicFull(count) == count >= MAX_PER_TOPIC

\* diversify: the loop from position i of the ranked list on
RECURSIVE DiversifyFrom(_, _, _, _)
DiversifyFrom(ranked, i, result, page_size) ==
    IF i > Len(ranked)
    THEN result
    ELSE LET a == ranked[i]
             source_count ==
                 Cardinality({k \in DOMAIN result :
                                news_articles[result[k]].source_id
                                  = news_articles[a].source_id})
             topic_count ==
                 Cardinality({k \in DOMAIN result :
                                PrimaryTopic(result[k]) = PrimaryTopic(a)})
         IN IF SourceFull(source_count)
            THEN DiversifyFrom(ranked, i + 1, result, page_size)
            ELSE IF TopicFull(topic_count)
            THEN DiversifyFrom(ranked, i + 1, result, page_size)
            ELSE IF Len(result) + 1 >= page_size
            THEN Append(result, a)
            ELSE DiversifyFrom(ranked, i + 1, Append(result, a), page_size)

Diversify(ranked, page_size) == DiversifyFrom(ranked, 1, <<>>, page_size)

\* the page of the diversified list
Paginate(list, page, page_size) ==
    SubSeq(list, (page - 1) * page_size + 1, Min(Len(list), page * page_size))

\* a row for the top article only
ImpressionRowsTop(u, items, page, page_size) ==
    IF items = <<>> THEN <<>>
    ELSE <<[user_id |-> u, article_id |-> items[1],
            position |-> (page - 1) * page_size, feed_type |-> "feed",
            created_at |-> now]>>

\* "Log feed_impressions": one row per article served
ImpressionRows(u, items, page, page_size) ==
    AsSeq([k \in 1..Len(items) |->
             [user_id |-> u, article_id |-> items[k],
              position |-> (page - 1) * page_size + k - 1, feed_type |-> "feed",
              created_at |-> now]])

\* GET /news/recommended?page&page_size: the whole request
GetFeed(u, page, page_size, vec) ==
    /\ feed_calls < feed_budget
    /\ LET vector == VectorPool(u, vec)
           cands == Merge(vector, TopicPool(u), TrendingPool, NewestPool)
           kept == FilterWithRetry(cands, u)
           score == AsSeq([i \in DOMAIN kept.items |-> Score(u, kept.items[i], vector)])
           ranked == SortDesc(kept.items, score)
           items == Paginate(Diversify(ranked, page_size), page, page_size)
       IN
       /\ response' = [status |-> 200, user_id |-> u, page |-> page,
                       page_size |-> page_size, items |-> items,
                       total |-> Len(ranked), relaxed |-> kept.relaxed,
                       vector |-> IF vector_backend = "none" THEN "none" ELSE vec,
                       vector_candidates |-> Len(vector)]
       /\ feed_impressions' = feed_impressions \o ImpressionRows(u, items, page, page_size)
    /\ feed_calls' = feed_calls + 1
    /\ UNCHANGED <<prefs, hidden, vector_backend, feed_budget, ledgerVars, popularity,
                   ingestVars, embedVars, uiVars>>

\* POST /news/articles/{id}/hide: "hidden" or "already_hidden"; hide_article
\* also writes the event through _log_event
HideArticle(u, a) ==
    /\ a \in DOMAIN news_articles
    /\ <<u, a>> \notin hidden
    /\ hidden' = hidden \cup {<<u, a>>}
    /\ user_events' = Append(user_events,
                             [user_id |-> u, article_id |-> a, event_type |-> "hide",
                              session_id |-> "none", created_at |-> now])
    /\ UNCHANGED <<now, req, popularity, ingestVars, prefs, feed_impressions,
                   vector_backend, response, feed_calls, feed_budget, embedVars,
                   uiVars>>

\* the instants the feed's clock visits: the start and 25 hours later
FeedTimePoints == {0, 1500}

\* the article store the feed is served from
F1 == [url |-> Url(11, "https", FALSE), title |-> {"squat", "tips"}, body |-> 11]
F2 == [url |-> Url(12, "https", FALSE), title |-> {"protein", "tips"}, body |-> 12]
F3 == [url |-> Url(13, "https", FALSE), title |-> {"squat", "form"}, body |-> 13]
F4 == [url |-> Url(14, "https", FALSE), title |-> {"gym", "news"}, body |-> 14]

FeedCatalog ==
    <<ArticleRow(1, F1, -1 * DAY), ArticleRow(1, F2, -2 * DAY),
      ArticleRow(2, F3, -10 * DAY), ArticleRow(2, F4, -29 * DAY)>>

FeedPopularity == <<3, 120, 0, -5>>

\* user 1 follows strength and blocks "protein"; user 2 has the default row
FeedPrefs ==
    [u \in Users |->
        IF u = 1 THEN [topics |-> <<"strength">>, blocked_keywords |-> {"protein"},
                       language |-> "en"]
        ELSE DefaultPrefs]

\* everything but the article store, the sources and the recommender at rest
InitRest ==
    /\ InitLedgerIdle
    /\ fetch_error_count = [s \in Sources |-> 0]
    /\ last_fetched_at = [s \in Sources |-> 0]
    /\ raw_feed_items = <<>>
    /\ feed = [s \in Sources |-> <<>>]
    /\ run = IdleRun
    /\ runs_started = 0
    /\ run_budget = 0
    /\ hidden = {}
    /\ feed_impressions = <<>>
    /\ response = NoResponse
    /\ feed_calls = 0
    /\ article_embeddings = {}
    /\ embed_pass = IdlePass
    /\ InitUiIdle

\* a filled store; the no-op backend or the local one (the networked backend
\* has the same contract)
InitFeed ==
    /\ InitRest
    /\ news_articles = FeedCatalog
    /\ popularity = FeedPopularity
    /\ prefs = FeedPrefs
    /\ enabled = [s \in Sources |-> TRUE]
    /\ vector_backend \in {"none", "local"}
    /\ feed_budget = MaxFeedCalls

\* the requests followed: user 1 asks for a first page of any size or for a
\* second page, user 2 for a first page
FeedRequests ==
    [user_id : {1}, page : {1}, page_size : PageSizes]
    \cup [user_id : {1}, page : Pages, page_size : {MaxPageSize}]
    \cup [user_id : {2}, page : {1}, page_size : {MaxPageSize}]

\* the articles user 1 may hide: the two that match the user's topic
HideTargets == {1, 3}

\* the outcomes of the vector search: the no-op backend has one
VectorOutcomes == IF vector_backend = "none" THEN {"down"} ELSE {"ok", "down"}

NextFeed ==
    \/ \E r \in FeedRequests, vec \in VectorOutcomes :
          GetFeed(r.user_id, r.page, r.page_size, vec)
    \/ \E a \in HideTargets : HideArticle(1, a)
    \/ Tick(FeedTimePoints)

SpecFeed == InitFeed /\ [][NextFeed]_vars

\* pages of one or two articles, first and second, for both users
PageRequests == [user_id : Users, page : Pages, page_size : {1, 2}]

NextPages ==
    \E r \in PageRequests, vec \in VectorOutcomes :
        GetFeed(r.user_id, r.page, r.page_size, vec)

\* the filled store, nothing but feed requests
SpecPages == InitFeed /\ [][NextPages]_vars

\* the kinds of article a store is drawn from: source x primary topic
CatalogKinds ==
    {ArticleRow(s, [url |-> Url(20, "https", FALSE), title |-> t, body |-> 20], 0) :
        s \in Sources, t \in {{"squat"}, {"news"}}}

\* any store of up to MaxCatalog articles, one request
InitDiversify ==
    /\ InitRest
    /\ news_articles \in UNION {[1..n -> CatalogKinds] : n \in 1..MaxCatalog}
    /\ popularity = [a \in 1..Len(news_articles) |-> 0]
    /\ prefs = FeedPrefs
    /\ enabled = [s \in Sources |-> TRUE]
    /\ vector_backend = "none"
    /\ feed_budget = 1

NextDiversify ==
    \E u \in Users, page_size \in 1..MaxPageSize : GetFeed(u, 1, page_size, "down")

SpecDiversify == InitDiversify /\ [][NextDiversify]_vars

(***************************************************************************)
(* Embeddings: the separate pass that embeds new and changed articles.     *)
(***************************************************************************)
\* "Embed batch (up to 100 at a time)"
EMBED_BATCH == 100

\* embedding passes followed
MaxPasses == 3

\* the articles whose text is revised
UpdateTargets == {1, 3}

\* the content_hash of the article once its text is revised
RevisedHash(a) == ContentHash(news_articles[a].title, 100 + a)

\* staleness seen only where the embedding row is missing
StaleWhenMissing(a) == \A p \in article_embeddings : p.article_id # a

\* "where embedding is NULL or content_hash differs"
Stale(a) ==
    \A p \in article_embeddings :
        p.article_id = a => p.content_hash # news_articles[a].content_hash

\* the background task starts: the LEFT JOIN selects its batch
StartEmbedPass ==
    /\ ~embed_pass.active
    /\ embed_pass.passes < MaxPasses
    /\ embed_pass' = [embed_pass EXCEPT !.active = TRUE,
                                        !.batch = Take(SelectSeq(AllIds, Stale), EMBED_BATCH),
                                        !.done = <<>>,
                                        !.embedded = 0,
                                        !.passes = @ + 1]
    /\ UNCHANGED <<article_embeddings, ledgerVars, popularity, ingestVars, recVars,
                   uiVars>>

\* one article of the batch: embed its text, upsert the vector
EmbedArticle ==
    /\ embed_pass.active
    /\ embed_pass.batch # <<>>
    /\ LET a == Head(embed_pass.batch) IN
       embed_pass' = [embed_pass EXCEPT
                        !.batch = Tail(@),
                        !.embedded = @ + 1,
                        !.done = Append(@, [article_id |-> a,
                                            content_hash |-> news_articles[a].content_hash])]
    /\ UNCHANGED <<article_embeddings, ledgerVars, popularity, ingestVars, recVars,
                   uiVars>>

\* the batch is embedded: upsert article_embeddings, the pass ends
UpsertEmbeddings ==
    /\ embed_pass.active
    /\ embed_pass.batch = <<>>
    /\ article_embeddings' =
          {p \in article_embeddings :
              \A d \in Range(embed_pass.done) : d.article_id # p.article_id}
          \cup Range(embed_pass.done)
    /\ embed_pass' = [embed_pass EXCEPT !.active = FALSE, !.done = <<>>]
    /\ UNCHANGED <<ledgerVars, popularity, ingestVars, recVars, uiVars>>

\* the pass is interrupted: what it embedded and did not yet record is lost
InterruptPass ==
    /\ embed_pass.active
    /\ embed_pass' = [embed_pass EXCEPT !.active = FALSE, !.batch = <<>>, !.done = <<>>,
                                        !.interrupts = @ + 1]
    /\ UNCHANGED <<article_embeddings, ledgerVars, popularity, ingestVars, recVars,
                   uiVars>>

\* the upsert that writes the whole row anew, the score at its default
PopularityResetByUpsert(score) == 0

\* the upsert writes the content columns and keeps popularity_score
PopularityAfterUpsert(score) == score

\* Stage 5, "content_hash differs -> update article, mark for re-embedding"
UpdateArticle(a) ==
    /\ a \in DOMAIN news_articles
    /\ news_articles[a].content_hash # RevisedHash(a)
    /\ news_articles' = [news_articles EXCEPT ![a].content_hash = RevisedHash(a)]
    /\ popularity' = [popularity EXCEPT ![a] = PopularityAfterUpsert(@)]
    /\ UNCHANGED <<enabled, fetch_error_count, last_fetched_at, raw_feed_items, feed, run,
                   runs_started, run_budget, ledgerVars, feedVars>>

\* the filled store, no embedding row yet
InitEmbed ==
    /\ InitRest
    /\ news_articles = FeedCatalog
    /\ popularity = FeedPopularity
    /\ prefs = FeedPrefs
    /\ enabled = [s \in Sources |-> TRUE]
    /\ vector_backend = "local"
    /\ feed_budget = 0

NextEmbed ==
    \/ StartEmbedPass
    \/ EmbedArticle
    \/ UpsertEmbeddings
    \/ InterruptPass
    \/ \E a \in UpdateTargets : UpdateArticle(a)

SpecEmbed == InitEmbed /\ [][NextEmbed]_vars

\* the article has no pointer row, or one with another hash than its own
NeedsEmbedding(a) ==
    ~\E p \in article_embeddings :
        p.article_id = a /\ p.content_hash = news_articles[a].content_hash

\* C11: a pass selects exactly the articles whose pointer is missing or holds
\* another content hash than the article's, and embeds only those, each once;
\* a completed pass records for each the hash it embedded, one row per
\* article; so a pass over unchanged content, also the one that follows an
\* interrupted and a resumed pass, embeds nothing.
C11_EmbedWhenStale ==
    /\ [](\A p, q \in article_embeddings : p.article_id = q.article_id => p = q)
    /\ [][/\ (embed_pass'.passes # embed_pass.passes) =>
               /\ Range(embed_pass'.batch)
                    = {a \in DOMAIN news_articles : NeedsEmbedding(a)}
               /\ Len(embed_pass'.batch) = Cardinality(Range(embed_pass'.batch))
               /\ embed_pass'.embedded = 0
               /\ embed_pass'.done = <<>>
          /\ (embed_pass'.embedded > embed_pass.embedded) =>
               /\ embed_pass'.embedded = embed_pass.embedded + 1
               /\ embed_pass.batch # <<>>
               /\ embed_pass'.batch = Tail(embed_pass.batch)
               /\ embed_pass'.done =
                    Append(embed_pass.done,
                           [article_id |-> Head(embed_pass.batch),
                            content_hash |->
                                news_articles[Head(embed_pass.batch)].content_hash])
          /\ (article_embeddings' # article_embeddings) =>
               /\ embed_pass.batch = <<>>
               /\ \A d \in Range(embed_pass.done) : d \in article_embeddings'
               /\ \A p \in article_embeddings' :
                    p \in article_embeddings \/ p \in Range(embed_pass.done)]_vars

\* the first pass was interrupted, the second embedded the whole store, then
\* article 1 was revised: the third pass embedded article 1 and nothing else
C11_Witness ==
    /\ embed_pass.passes = 3
    /\ embed_pass.interrupts = 1
    /\ ~embed_pass.active
    /\ embed_pass.embedded = 1
    /\ news_articles[1].content_hash = RevisedHash(1)
    /\ \A a \in DOMAIN news_articles : ~NeedsEmbedding(a)

(***************************************************************************)
(* The subsystems side by side: one ingestion run, one embedding pass, one *)
(* feed request, and the ledger, over one store.                           *)
(***************************************************************************)
\* the click the ledger receives
OneClick == <<[article_id |-> 1, event_type |-> "click", session_id |-> "s1"]>>

\* the filled store; both sources serve E1, which source 1 has under the same
\* title already; the embedding passes before the last one were interrupted
InitAll ==
    /\ InitLedgerIdle
    /\ fetch_error_count = [s \in Sources |-> 0]
    /\ last_fetched_at = [s \in Sources |-> 0]
    /\ raw_feed_items = <<>>
    /\ news_articles = FeedCatalog
    /\ popularity = FeedPopularity
    /\ feed = [s \in Sources |-> <<E1>>]
    /\ enabled = [s \in Sources |-> TRUE]
    /\ run = IdleRun
    /\ runs_started = 0
    /\ run_budget = 1
    /\ prefs = FeedPrefs
    /\ hidden = {}
    /\ feed_impressions = <<>>
    /\ vector_backend = "local"
    /\ response = NoResponse
    /\ feed_calls = 0
    /\ feed_budget = 1
    /\ article_embeddings = {}
    /\ embed_pass = [IdlePass EXCEPT !.passes = MaxPasses - 1,
                                     !.interrupts = MaxPasses - 1]
    /\ InitUiIdle

NextAll ==
    \/ Trigger("scheduler")
    \/ FetchSource(TRUE)
    \/ StageEntry
    \/ PersistEntry
    \/ FinishSource
    \/ FinishRun
    \/ StartEmbedPass
    \/ EmbedArticle
    \/ UpsertEmbeddings
    \/ UpdateArticle(1)
    \/ GetFeed(1, 1, MaxPageSize, "ok")
    \/ SubmitEvents(1, 1, OneClick)
    \/ CheckEvent(1)
    \/ ApplyEvent(1)
    \/ Respond(1)

SpecAll == InitAll /\ [][NextAll]_vars

(***************************************************************************)
(* Properties of the recommender.                                          *)
(***************************************************************************)
\* the step is a feed request being answered
FeedServed == feed_calls' = feed_calls + 1

SourceCountOn(items, s) ==
    Cardinality({k \in DOMAIN items : news_articles[items[k]].source_id = s})

TopicCountOn(items, t) ==
    Cardinality({k \in DOMAIN items :
                   IF news_articles[items[k]].topics = <<>>
                   THEN t = "general"
                   ELSE t = Head(news_articles[items[k]].topics)})

DiversePage(items) ==
    /\ \A s \in Sources : SourceCountOn(items, s) <= 2
    /\ \A t \in Range(TopicOrder) \cup {"general"} : TopicCountOn(items, t) <= 3

\* C6: on every page get_feed returns, for any article store, user and page
\* size, no source appears more than 2 times and no primary topic more than
\* 3 times.
C6_DiversityBound == response.status = 200 => DiversePage(response.items)

\* a page of four: three of one primary topic from both sources, the fourth
\* article of that topic passed over, the fifth article admitted
C6_Witness ==
    /\ response.status = 200
    /\ response.items = <<1, 2, 3, 5>>
    /\ response.total = 5
    /\ TopicCountOn(response.items, "strength") = 3
    /\ news_articles[4].topics = <<"strength">>
    /\ SourceCountOn(response.items, news_articles[4].source_id) = 2
    /\ news_articles[5].source_id = news_articles[4].source_id

\* C7: once user U has hidden article A, no later get_feed(U) answer holds A,
\* on any page and also when the filters were relaxed.
C7_HiddenNeverServed ==
    [][FeedServed =>
         \A k \in DOMAIN response'.items :
             <<response'.user_id, response'.items[k]>> \notin hidden]_vars

\* the request comes with the vector search giving nothing, asks for the first
\* page, and the user has a topic-pool or trending candidate
DegradedRequest ==
    /\ FeedServed
    /\ response'.vector # "ok"
    /\ response'.page = 1

C15_OneImpressionPerItem ==
    [][FeedServed =>
         LET items == response'.items
             n == Len(feed_impressions)
         IN /\ Len(feed_impressions') = n + Len(items)
            /\ SubSeq(feed_impressions', 1, n) = feed_impressions
            /\ \A k \in DOMAIN items :
                 /\ feed_impressions'[n + k].user_id = response'.user_id
                 /\ feed_impressions'[n + k].article_id = items[k]
                 /\ feed_impressions'[n + k].position
                      = (response'.page - 1) * response'.page_size + k - 1
                 /\ feed_impressions'[n + k].feed_type = "feed"]_vars

\* user 1 was served one article, then user 2 a page of several: the rows of
\* user 2 follow the row of user 1
C15_Witness ==
    /\ feed_calls = 2
    /\ response.user_id = 2
    /\ Len(response.items) >= 2
    /\ Len(feed_impressions) = 1 + Len(response.items)
    /\ feed_impressions[1].user_id = 1
    /\ feed_impressions[Len(feed_impressions)].user_id = 2
    /\ feed_impressions[Len(feed_impressions)].position = Len(response.items) - 1

\* the user has an impression of the article not older than 24 hours
OwnImpression(u, a) ==
    \E i \in DOMAIN feed_impressions :
        /\ feed_impressions[i].user_id = u
        /\ feed_impressions[i].article_id = a
        /\ now - feed_impressions[i].created_at <= 24 * 60

\* the request is for a first page that has room for the whole store, and no
\* diversity cap binds in the store
WholeStoreRequest ==
    /\ response'.page = 1
    /\ response'.page_size >= Len(news_articles)
    /\ DiversePage(AllIds)

\* C16: get_feed(U) never returns an article that is in U's feed_impressions of
\* the last 24 hours; the impressions of other users do not count: an article
\* that passes U's strict filters is served when the page has room for it.
C16_SeenFilter ==
    [][FeedServed =>
         LET u == response'.user_id IN
         /\ \A k \in DOMAIN response'.items : ~OwnImpression(u, response'.items[k])
         /\ WholeStoreRequest =>
              \A a \in DOMAIN news_articles :
                  (/\ ~OwnImpression(u, a)
                   /\ <<u, a>> \notin hidden
                   /\ prefs[u].blocked_keywords \cap news_articles[a].title = {}
                   /\ enabled[news_articles[a].source_id]
                   /\ news_articles[a].language = prefs[u].language
                   /\ AgeOf(a) <= 14 * DAY) =>
                      a \in Range(response'.items)]_vars

\* user 1 was served article 1; within the day user 2 is served article 1 too
C16_Witness ==
    /\ feed_calls = 2
    /\ now = 0
    /\ feed_impressions[1].user_id = 1
    /\ feed_impressions[1].article_id = 1
    /\ response.user_id = 2
    /\ 1 \in Range(response.items)
    /\ OwnImpression(1, 1)

\* the candidates of the request being served, as merged from the pools
CandidatesServed ==
    Range(Merge(VectorPool(response'.user_id, response'.vector),
                TopicPool(response'.user_id), TrendingPool, NewestPool))

\* filters 3 to 5 and the freshness window of `days` days
PassesBasic(u, a, days) ==
    /\ prefs[u].blocked_keywords \cap news_articles[a].title = {}
    /\ enabled[news_articles[a].source_id]
    /\ news_articles[a].language = prefs[u].language
    /\ AgeOf(a) <= days * DAY

PassesStrict(u, a) ==
    /\ PassesBasic(u, a, 14)
    /\ <<u, a>> \notin hidden
    /\ ~OwnImpression(u, a)

\* C13 as stated: a first page is empty only if no candidate is left once the
\* window is 30 days and the hidden and seen filters are relaxed; nothing is
\* relaxed while the strict filters leave a candidate.
C13_EmptyAfterFullRelaxation ==
    [][FeedServed =>
         LET u == response'.user_id IN
         /\ (\E a \in CandidatesServed : PassesStrict(u, a)) =>
               /\ ~response'.relaxed
               /\ \A k \in DOMAIN response'.items : PassesStrict(u, response'.items[k])
         /\ (response'.page = 1 /\ response'.items = <<>>) =>
               \A a \in CandidatesServed : ~PassesBasic(u, a, 30)]_vars

\* C13 amended: the retry happens exactly when the strict filters leave
\* nothing; it widens the window to 30 days and skips the hidden filter, and
\* keeps the seen filter; a first page is empty only if the retry leaves nothing.
C13_EmptyAfterRetry ==
    [][FeedServed =>
         LET u == response'.user_id IN
         /\ response'.relaxed <=> ~\E a \in CandidatesServed : PassesStrict(u, a)
         /\ ~response'.relaxed =>
               \A k \in DOMAIN response'.items : PassesStrict(u, response'.items[k])
         /\ response'.relaxed =>
               \A k \in DOMAIN response'.items :
                   /\ PassesBasic(u, response'.items[k], 30)
                   /\ ~OwnImpression(u, response'.items[k])
         /\ (response'.page = 1 /\ response'.items = <<>>) =>
               \A a \in CandidatesServed :
                   ~(PassesBasic(u, a, 30) /\ ~OwnImpression(u, a))]_vars

\* the strict filters left user 1 nothing, and the retry served the article
\* of 29 days
C13_Witness ==
    /\ response.status = 200
    /\ response.user_id = 1
    /\ response.relaxed
    /\ response.items = <<4>>
    /\ OwnImpression(1, 1)
    /\ OwnImpression(1, 3)

\* the user being served has no topic in the preferences and no event
ColdStartRequest ==
    /\ FeedServed
    /\ response'.page = 1
    /\ prefs[response'.user_id].topics = <<>>
    /\ \A i \in DOMAIN user_events : user_events[i].user_id # response'.user_id

SecondPageServed ==
    /\ FeedServed
    /\ response.status = 200
    /\ response.page = 1
    /\ response'.page = 2
    /\ response'.user_id = response.user_id
    /\ response'.page_size = response.page_size
    /\ response.items # <<>>
    /\ feed_impressions[Len(feed_impressions)].created_at = now
    /\ DiversePage(AllIds)

\* C17: page 1 and then page 2 of the same size are disjoint and together hold
\* as many articles as the first 2 * page_size of the diversified order: the
\* impressions of page 1 make page 2 neither skip nor repeat an article.
C17_PagesPartitionOrder ==
    [][SecondPageServed =>
         /\ Range(response.items) \cap Range(response'.items) = {}
         /\ Len(response.items) + Len(response'.items)
              = Min(2 * response.page_size, response.total)]_vars

(***************************************************************************)
(* Properties of the feedback ledger.                                      *)
(***************************************************************************)
\* the step in which call w finishes its current event
Applies(w) == req[w].pc = "apply" /\ req'[w].idx = req[w].idx + 1
Accepts(w) == Applies(w) /\ req'[w].accepted = req[w].accepted + 1
CurrentEvent(w) == req[w].events[req[w].idx]

\* user_events already holds the current event's (user, article, kind, session),
\* inserted less than 5 minutes ago
SubmittedWithinWindow(w) ==
    \E i \in DOMAIN user_events :
        /\ user_events[i].user_id = req[w].user_id
        /\ user_events[i].article_id = CurrentEvent(w).article_id
        /\ user_events[i].event_type = CurrentEvent(w).event_type
        /\ user_events[i].session_id = CurrentEvent(w).session_id
        /\ now - user_events[i].created_at < 5

RECURSIVE LoggedDelta(_, _)
LoggedDelta(log, a) ==
    IF log = <<>> THEN 0
    ELSE (IF Head(log).article_id = a
          THEN (CASE Head(log).event_type = "click"  -> 1
                  [] Head(log).event_type = "save"   -> 3
                  [] Head(log).event_type = "unsave" -> -1
                  [] Head(log).event_type = "hide"   -> -5
                  [] OTHER -> 0)
          ELSE 0) + LoggedDelta(Tail(log), a)

\* C3: with two calls running concurrently, in every interleaving each
\* article's popularity is its initial value 0 plus the deltas of all the
\* events accepted so far (the rows of user_events), so no update is lost.
C3_NoLostUpdate ==
    \A a \in ArticleIds : popularity[a] = LoggedDelta(user_events, a)

\* both calls loaded the same popularity of article 1 before either wrote,
\* and both have applied their event
C3_Witness ==
    /\ req[1].pc = "done" /\ req[2].pc = "done"
    /\ Len(req[1].events) = 1 /\ Len(req[2].events) = 1
    /\ req[1].accepted = 1 /\ req[2].accepted = 1
    /\ req[1].events[1].article_id = 1 /\ req[2].events[1].article_id = 1
    /\ req[1].pop_read = 0 /\ req[2].pop_read = 0
    /\ popularity[1] = 4

\* C21: when two calls of one user carry the same (article, event kind,
\* session) within 5 minutes, in every interleaving the event is inserted and
\* applied once: user_events never holds two such rows less than 5 minutes
\* apart, and of two finished calls of that one event one was accepted and one
\* was counted in duplicates_skipped.
C21_ConcurrentDedup ==
    /\ \A i, j \in DOMAIN user_events :
          (/\ i < j
           /\ user_events[i].user_id = user_events[j].user_id
           /\ user_events[i].article_id = user_events[j].article_id
           /\ user_events[i].event_type = user_events[j].event_type
           /\ user_events[i].session_id = user_events[j].session_id) =>
              user_events[j].created_at - user_events[i].created_at >= 5
    /\ (/\ now < 5
        /\ req[1].pc = "done" /\ req[2].pc = "done"
        /\ req[1].user_id = req[2].user_id
        /\ Len(req[1].events) = 1
        /\ req[1].events = req[2].events) =>
           /\ req[1].accepted + req[2].accepted = 1
           /\ req[1].duplicates_skipped + req[2].duplicates_skipped = 1

\* C22: the popularity of an article changes only in the step in which a
\* submit_events call accepts an event of that article; the ingestion run (a
\* new article starts with its own score), the upsert of a changed article,
\* the embedding pass and get_feed leave the score of every article as it was.
C22_PopularityFrame ==
    [][/\ Len(popularity') >= Len(popularity)
       /\ \A a \in DOMAIN popularity :
            popularity'[a] # popularity[a] =>
               \E w \in Workers : Accepts(w) /\ CurrentEvent(w).article_id = a]_vars

\* the run has inserted a fifth article, article 1 was revised and embedded
\* again, a page was served, and the one accepted click moved article 1 from
\* 3 to 4
C22_Witness ==
    /\ Len(news_articles) = 5
    /\ run.in_flight = 0 /\ runs_started = 1
    /\ news_articles[1].content_hash = RevisedHash(1)
    /\ ~NeedsEmbedding(1)
    /\ feed_calls = 1
    /\ Len(user_events) = 1
    /\ popularity = <<4, 120, 0, -5, 0>>

MaxMounts == 2
MaxMessages == 2

ConvIds == {"c1", "c2"}

\* a text is its sequence of characters
Blank == " "

RECURSIVE TrimStart(_)
TrimStart(t) == IF t # <<>> /\ Head(t) = Blank THEN TrimStart(Tail(t)) ELSE t

RECURSIVE TrimEnd(_)
TrimEnd(t) ==
    IF t # <<>> /\ t[Len(t)] = Blank THEN TrimEnd(SubSeq(t, 1, Len(t) - 1)) ELSE t

\* String.prototype.trim
Trim(t) == TrimEnd(TrimStart(t))

\* what the user can type, the quick-start chip, the follow-up chip
InputTexts == {<<>>, <<Blank>>, <<Blank, "a", Blank>>}

QuickText == <<"q">>

FollowText == <<"f">>

\* JSON.stringify and JSON.parse on the values stored here
JsonStringify(v) == <<"json", v>>

JsonParse(raw) == raw[2]

\* "raw ? JSON.parse(raw) : null", then the uid of the component
readStoredUid ==
    IF localStorage[UserKey] = Absent
    THEN "anonymous"
    ELSE JsonParse(localStorage[UserKey][1]).id

\* "raw ? JSON.parse(raw) : []"
loadMessages(uid) ==
    IF localStorage[msgsKey(uid)] = Absent
    THEN <<>>
    ELSE JsonParse(localStorage[msgsKey(uid)][1])

\* "raw ? JSON.parse(raw) : {}"
loadProfile(uid) ==
    IF localStorage[profileKey(uid)] = Absent
    THEN "empty"
    ELSE JsonParse(localStorage[profileKey(uid)][1])

\* localStorage.getItem(convKey(uid)): the stored string or null
loadConversationId(uid) ==
    IF localStorage[convKey(uid)] = Absent THEN "null" ELSE localStorage[convKey(uid)][1]

\* the two persistence effects, each run when its dependency has changed:
\* saveMessages(uid, messages); if (conversationId) setItem(convKey(uid), ...)
PersistEffects(ls, c, msgsChanged, convChanged) ==
    [k \in StorageKeys |->
        IF msgsChanged /\ k = msgsKey(c.uid) THEN Stored(JsonStringify(c.messages))
        ELSE IF convChanged /\ c.conversationId # "null" /\ k = convKey(c.uid)
        THEN Stored(c.conversationId)
        ELSE ls[k]]

Mounted == route = "/ai-coach"

\* the login page stores the token and the user (syncUser)
Login(u) ==
    /\ ~Mounted
    /\ localStorage' = [localStorage EXCEPT ![TokenKey] = Stored("jwt"),
                                            ![UserKey] = Stored(JsonStringify([id |-> u]))]
    /\ route' = "/"
    /\ UNCHANGED <<coach, requests, ledgerVars, popularity, ingestVars, recVars, embedVars, textType>>

\* syncUser(null): the session is closed while the page may be open
Logout ==
    /\ localStorage[TokenKey] # Absent
    /\ localStorage' = [localStorage EXCEPT ![TokenKey] = Absent, ![UserKey] = Absent]
    /\ UNCHANGED <<route, coach, requests, ledgerVars, popularity, ingestVars, recVars,
                   embedVars, textType>>

\* "User opens /ai-coach -> ProtectedRoute verifies token": a new instance,
\* its state read from the keys of the stored user, then the effects
Mount ==
    /\ ~Mounted
    /\ coach.inst < MaxMounts
    /\ localStorage[TokenKey] # Absent
    /\ LET uid == readStoredUid
           c == [inst |-> coach.inst + 1, uid |-> uid, messages |-> loadMessages(uid),
                 conversationId |-> loadConversationId(uid), profile |-> loadProfile(uid),
                 input |-> <<>>, isLoading |-> FALSE, error |-> "null"]
       IN /\ coach' = c
          /\ localStorage' = PersistEffects(localStorage, c, TRUE, TRUE)
    /\ route' = "/ai-coach"
    /\ UNCHANGED <<requests, ledgerVars, popularity, ingestVars, recVars, embedVars, textType>>

\* the user goes to another page: the instance is unmounted
Leave ==
    /\ Mounted
    /\ route' = "/"
    /\ UNCHANGED <<coach, localStorage, requests, ledgerVars, popularity, ingestVars,
                   recVars, embedVars, textType>>

\* onChange of the textarea
SetInput(text) ==
    /\ Mounted
    /\ coach.input # text
    /\ coach' = [coach EXCEPT !.input = text]
    /\ UNCHANGED <<route, localStorage, requests, ledgerVars, popularity, ingestVars,
                   recVars, embedVars, textType>>

\* handleSaveProfile
SaveProfile(p) ==
    /\ Mounted
    /\ coach' = [coach EXCEPT !.profile = p]
    /\ localStorage' = [localStorage EXCEPT ![profileKey(coach.uid)] =
                                               Stored(JsonStringify(p))]
    /\ UNCHANGED <<route, requests, ledgerVars, popularity, ingestVars, recVars, embedVars, textType>>

\* a second call goes through while one is pending
BusyNever(isLoading) == FALSE

\* "if (!trimmed || isLoading) return": the second half
Busy(isLoading) == isLoading

\* the request goes out without a token
TokenMissingNever(item) == FALSE

\* "if (!token) { navigate('/login'); return; }"
TokenMissing(item) == item = Absent

\* sendMessage(text), up to "await fetch"
sendMessage(text) ==
    LET trimmed == Trim(text) IN
    /\ IF trimmed = <<>> \/ Busy(coach.isLoading)
       THEN UNCHANGED <<route, coach, localStorage, requests>>
       ELSE IF TokenMissing(localStorage[TokenKey])
       THEN /\ coach' = [coach EXCEPT !.error = "null", !.input = <<>>]
            /\ route' = "/login"
            /\ UNCHANGED <<localStorage, requests>>
       ELSE /\ Len(coach.messages) < MaxMessages
            /\ LET c == [coach EXCEPT !.error = "null", !.input = <<>>, !.isLoading = TRUE,
                                      !.messages = Append(@, [role |-> "user",
                                                              content |-> trimmed,
                                                              follow_up |-> FALSE])]
               IN /\ coach' = c
                  /\ localStorage' = PersistEffects(localStorage, c, TRUE, FALSE)
            /\ requests' = Append(requests,
                                  [inst |-> coach.inst, message |-> trimmed,
                                   conversation_id |-> coach.conversationId,
                                   user_profile |-> IF coach.profile = "complete"
                                                    THEN coach.profile ELSE "none"])
            /\ UNCHANGED route
    /\ UNCHANGED <<ledgerVars, popularity, ingestVars, recVars, embedVars, textType>>

\* the send button: "disabled={isLoading || !input.trim()}"
HandleSend ==
    /\ Mounted
    /\ ~(coach.isLoading \/ Trim(coach.input) = <<>>)
    /\ sendMessage(coach.input)

\* Enter without Shift in the textarea
HandleKeyDown ==
    /\ Mounted
    /\ sendMessage(coach.input)

\* a quick-start chip, shown while "messages.length === 0 && !isLoading"
QuickStart ==
    /\ Mounted
    /\ coach.messages = <<>> /\ ~coach.isLoading
    /\ sendMessage(QuickText)

\* a follow-up chip of an assistant message, "disabled={isLoading}"
FollowUp ==
    /\ Mounted
    /\ ~coach.isLoading
    /\ \E i \in DOMAIN coach.messages : coach.messages[i].follow_up
    /\ sendMessage(FollowText)

\* handleReset, then the effects: saveMessages writes the empty list back
HandleReset ==
    /\ Mounted
    /\ LET c == [coach EXCEPT !.messages = <<>>, !.conversationId = "null",
                              !.error = "null"]
           removed == [localStorage EXCEPT ![convKey(coach.uid)] = Absent,
                                           ![msgsKey(coach.uid)] = Absent]
       IN /\ coach' = c
          /\ localStorage' = PersistEffects(removed, c, TRUE, FALSE)
    /\ UNCHANGED <<route, requests, ledgerVars, popularity, ingestVars, recVars, embedVars, textType>>

\* what fetch can come back with: the statuses of POST /api/ai/coach/chat
\* (200; 401, 404, 502) and the rejected promise
Outcomes == {"200", "401", "404", "502", "network"}

\* the 401 path returns before isLoading is cleared
LoadingAfter401(outcome) == outcome = "401"

\* "finally { setIsLoading(false); }": on every path out of the try block
LoadingAfterSettle(outcome) == FALSE

RemoveAt(q, i) == SubSeq(q, 1, i - 1) \o SubSeq(q, i + 1, Len(q))

\* the state updates of a continuation reach the instance that made the call;
\* the effects follow while it is mounted
Settle(i, outcome, conv, fu) ==
    /\ i \in DOMAIN requests
    /\ LET r == requests[i]
           own == r.inst = coach.inst
           live == own /\ Mounted
       IN
       CASE outcome = "401" ->
              /\ localStorage' = [localStorage EXCEPT ![TokenKey] = Absent,
                                                      ![UserKey] = Absent]
              /\ route' = "/login"
              /\ coach' = IF own
                          THEN [coach EXCEPT !.error = "session",
                                             !.isLoading = LoadingAfterSettle(outcome)]
                          ELSE coach
         [] outcome = "200" ->
              /\ conv = (IF r.conversation_id # "null" THEN r.conversation_id ELSE conv)
              /\ LET c == [coach EXCEPT !.conversationId = conv,
                                        !.messages = Append(@, [role |-> "assistant",
                                                                content |-> <<"r">>,
                                                                follow_up |-> fu]),
                                        !.isLoading = LoadingAfterSettle(outcome)]
                 IN /\ coach' = IF own THEN c ELSE coach
                    /\ localStorage' = IF live
                                       THEN PersistEffects(localStorage, c, TRUE, TRUE)
                                       ELSE localStorage
              /\ UNCHANGED route
         [] OTHER ->
              /\ coach' = IF own
                          THEN [coach EXCEPT !.isLoading = LoadingAfterSettle(outcome),
                                             !.error = IF outcome = "502" THEN "server"
                                                       ELSE IF outcome = "404" THEN "detail"
                                                       ELSE "network"]
                          ELSE coach
              /\ UNCHANGED <<route, localStorage>>
    /\ requests' = RemoveAt(requests, i)
    /\ UNCHANGED <<ledgerVars, popularity, ingestVars, recVars, embedVars, textType>>

SettleAny ==
    \E i \in DOMAIN requests, outcome \in Outcomes, conv \in ConvIds, fu \in BOOLEAN :
        Settle(i, outcome, conv, fu)

\* the servers idle, the browser at the login page
InitCoach ==
    /\ InitSources
    /\ enabled = [s \in Sources |-> TRUE]
    /\ feed = [s \in Sources |-> <<>>]
    /\ run_budget = 0

\* two users taking turns in one browser, sending from the chips
NextCoach ==
    \/ \E u \in UserIds : Login(u)
    \/ Logout
    \/ Mount
    \/ Leave
    \/ SaveProfile("complete")
    \/ QuickStart
    \/ FollowUp
    \/ HandleReset
    \/ SettleAny

SpecCoach == InitCoach /\ [][NextCoach]_vars

\* one user's sessions on the page
NextSession ==
    \/ Login("1")
    \/ Logout
    \/ Mount
    \/ \E text \in InputTexts : SetInput(text)
    \/ HandleSend
    \/ HandleKeyDown
    \/ QuickStart
    \/ FollowUp
    \/ HandleReset
    \/ SettleAny

SpecSession == InitCoach /\ [][NextSession]_vars

\* every request in flight settles: fetch resolves or rejects
SpecSessionLive == SpecSession /\ WF_vars(SettleAny)


(***************************************************************************)
(* Properties of AICoach.                                                  *)
(***************************************************************************)
\* the requests in flight that the current instance sent
OwnRequests == {i \in DOMAIN requests : requests[i].inst = coach.inst}

\* the step hands a request to fetch
SendsRequest == Len(requests') = Len(requests) + 1

\* the step appends a user message to the list of the same instance
AppendsUserMessage ==
    /\ coach'.inst = coach.inst
    /\ Len(coach'.messages) = Len(coach.messages) + 1
    /\ coach'.messages[Len(coach'.messages)].role = "user"

\* the step is the continuation of a request of the current instance
SettlesOwn ==
    /\ Len(requests') = Len(requests) - 1
    /\ OwnRequests # {}

\* C24: the instance has at most one request in flight, every request and
\* every user message carries a text that is non-empty and trimmed, and a
\* step sends a request or appends a user message only from a state where
\* isLoading is false, doing both together and setting isLoading; so a
\* sendMessage with a blank text or under isLoading sends and appends nothing.
C24_OneRequestPending ==
    /\ [](/\ Cardinality(OwnRequests) <= 1
          /\ \A i \in DOMAIN requests :
                requests[i].message # <<>> /\ Trim(requests[i].message) = requests[i].message
          /\ \A i \in DOMAIN coach.messages :
                coach.messages[i].role = "user" => coach.messages[i].content # <<>>
          /\ (Mounted /\ coach.isLoading) => OwnRequests # {})
    /\ [][(SendsRequest \/ AppendsUserMessage) =>
             /\ ~coach.isLoading
             /\ SendsRequest /\ AppendsUserMessage
             /\ coach'.isLoading
             /\ requests'[Len(requests')].message
                    = coach'.messages[Len(coach'.messages)].content]_vars

\* a request is pending and the user has typed the next message: Enter
\* calls sendMessage under isLoading
C24_Witness ==
    /\ Mounted
    /\ coach.isLoading
    /\ Len(requests) = 1
    /\ Trim(coach.input) # <<>>
    /\ Len(coach.messages) = 1

\* C25: a step that shortens the message list (handleReset) leaves messages
\* empty and conversationId null, in state and under the uid's keys; and the
\* continuation of a request sent before the reset (the list is empty while
\* the instance's request is in flight) leaves messages empty and
\* conversationId null.
C25_ResetStaysNew ==
    [][/\ (Mounted /\ coach'.inst = coach.inst /\ Len(coach'.messages) < Len(coach.messages))
            => /\ coach'.messages = <<>>
               /\ coach'.conversationId = "null"
               /\ localStorage'[<<"ai_coach", coach.uid, "messages">>]
                      \in {Absent, Stored(JsonStringify(<<>>))}
               /\ localStorage'[<<"ai_coach", coach.uid, "conversation_id">>] = Absent
       /\ (SettlesOwn /\ coach.messages = <<>>)
            => /\ coach'.messages = <<>>
               /\ coach'.conversationId = "null"]_vars

\* the part of C25 that is about handleReset itself
ResetClears ==
    [][(Mounted /\ coach'.inst = coach.inst /\ Len(coach'.messages) < Len(coach.messages))
            => /\ coach'.messages = <<>>
               /\ coach'.conversationId = "null"
               /\ localStorage'[<<"ai_coach", coach.uid, "messages">>]
                      \in {Absent, Stored(JsonStringify(<<>>))}
               /\ localStorage'[<<"ai_coach", coach.uid, "conversation_id">>] = Absent]_vars

\* C26: the continuation that reports the expired session (a 401) removes
\* access_token and user, goes to /login, and leaves messages and
\* conversationId as they were; with no access_token stored no step sends a
\* request or appends a user message, and the step that leaves the page goes
\* to /login with the message list and localStorage unchanged.
C26_SessionExpiry ==
    [][/\ (SettlesOwn /\ coach'.error = "session")
            => /\ localStorage'[TokenKey] = Absent
               /\ localStorage'[UserKey] = Absent
               /\ route' = "/login"
               /\ coach'.messages = coach.messages
               /\ coach'.conversationId = coach.conversationId
       /\ (Mounted /\ localStorage[TokenKey] = Absent)
            => /\ ~SendsRequest
               /\ ~AppendsUserMessage
               /\ (route' # route /\ requests' = requests)
                    => /\ route' = "/login"
                       /\ coach'.messages = coach.messages
                       /\ localStorage' = localStorage]_vars

\* the 401 has been handled: one user message, no assistant message
C26_Witness ==
    /\ route = "/login"
    /\ coach.error = "session"
    /\ localStorage[TokenKey] = Absent
    /\ localStorage[UserKey] = Absent
    /\ requests = <<>>
    /\ Len(coach.messages) = 1
    /\ coach.messages[1].role = "user"
    /\ coach.conversationId = "null"

\* C27: the continuation of the instance's request leaves isLoading false,
\* whatever the outcome, and an instance that is loading is eventually not.
C27_LoadingEnds ==
    /\ [][SettlesOwn => ~coach'.isLoading]_vars
    /\ \A n \in 1..MaxMounts :
          (coach.inst = n /\ coach.isLoading) ~> (coach.inst = n /\ ~coach.isLoading)

\* a request has failed with a server error and the chat is unlocked
C27_Witness ==
    /\ Mounted
    /\ coach.error = "server"
    /\ ~coach.isLoading
    /\ requests = <<>>
    /\ Len(coach.messages) = 1

\* the ai_coach keys of a uid
KeysOf(u) == {<<"ai_coach", u, f>> : f \in {"profile", "conversation_id", "messages"}}

\* C28: while the page is mounted, the uid is the stored user's id, the
\* messages key of the uid holds the messages state, the conversation_id key
\* holds conversationId and is absent when it is null, the profile key holds
\* the profile once saved; a new instance takes its state from the keys of
\* its uid, and no step changes a key of another uid.
C28_ScopedStorage ==
    /\ [](Mounted =>
            /\ localStorage[UserKey] # Absent
                 => coach.uid = JsonParse(localStorage[UserKey][1]).id
            /\ localStorage[<<"ai_coach", coach.uid, "messages">>]
                 = Stored(JsonStringify(coach.messages))
            /\ localStorage[<<"ai_coach", coach.uid, "conversation_id">>]
                 = (IF coach.conversationId = "null" THEN Absent
                    ELSE Stored(coach.conversationId))
            /\ localStorage[<<"ai_coach", coach.uid, "profile">>]
                 = (IF coach.profile = "empty" THEN Absent
                    ELSE Stored(JsonStringify(coach.profile))))
    /\ [][/\ \A u \in Uids \ {coach'.uid} : \A k \in KeysOf(u) :
                localStorage'[k] = localStorage[k]
          /\ coach'.inst # coach.inst =>
                /\ coach'.messages =
                     (IF localStorage[<<"ai_coach", coach'.uid, "messages">>] = Absent
                      THEN <<>>
                      ELSE JsonParse(localStorage[<<"ai_coach", coach'.uid, "messages">>][1]))
                /\ coach'.conversationId =
                     (IF localStorage[<<"ai_coach", coach'.uid, "conversation_id">>] = Absent
                      THEN "null"
                      ELSE localStorage[<<"ai_coach", coach'.uid, "conversation_id">>][1])]_vars

\* user 2 has the page open with a conversation of their own, next to the
\* stored conversation of user 1
C28_Witness ==
    /\ Mounted
    /\ coach.uid = "2"
    /\ Len(coach.messages) = 2
    /\ coach.conversationId = "c2"
    /\ localStorage[<<"ai_coach", "1", "conversation_id">>] = Stored("c1")
    /\ localStorage[<<"ai_coach", "1", "messages">>] # Absent
    /\ localStorage[<<"ai_coach", "1", "messages">>]
         # localStorage[<<"ai_coach", "2", "messages">>]


(***************************************************************************)
(* TextType (src/unnamed/part_002): the typing animation.  A step is one   *)
(* timer firing or one run of the typing effect that updates state; the    *)
(* effect that follows a state change decides what is pending next.        *)
(***************************************************************************)
\* bounds of the model
MaxPhrases == 2
MaxCalls == 3

Phrases == {<<>>, <<"a">>, <<"a", "b">>}

\* the text prop as textArray: "Array.isArray(text) ? text : [text]"
TextArrays == UNION {[1..n -> Phrases] : n \in 1..MaxPhrases}

\* currentText.split('').reverse().join('')
Reverse(t) == [k \in 1..Len(t) |-> t[Len(t) + 1 - k]]

\* processedText of a phrase
Processed(t, reverseMode) == IF reverseMode THEN AsSeq(Reverse(t)) ELSE t

\* the last phrase is taken for any other
IsLastNever(index, n) == FALSE

\* "currentTextIndex === textArray.length - 1"
IsLast(index, n) == index = n - 1

\* executeTypingAnimation: the timer it sets, "complete" when it updates the
\* state at once, "none" when it returns
Execute(t) ==
    LET processedText == Processed(t.text[t.currentTextIndex + 1], t.reverseMode) IN
    IF t.isDeleting
    THEN IF t.displayedText = <<>> THEN "complete" ELSE "delete"
    ELSE IF t.currentCharIndex < Len(processedText) THEN "type"
    ELSE IF Len(t.text) >= 1
    THEN IF ~t.loop /\ IsLast(t.currentTextIndex, Len(t.text)) THEN "none" ELSE "pause"
    ELSE "none"

\* the typing effect after a render: nothing while not visible, the initial
\* delay before a phrase starts, executeTypingAnimation otherwise
PendingWork(t) ==
    IF ~t.isVisible THEN "none"
    ELSE IF t.currentCharIndex = 0 /\ ~t.isDeleting /\ t.displayedText = <<>>
    THEN "initial"
    ELSE Execute(t)

AfterRender(t) == [t EXCEPT !.timer = PendingWork(t)]

\* the IntersectionObserver reports the element in view
Intersect ==
    /\ ~textType.isVisible
    /\ textType' = AfterRender([textType EXCEPT !.isVisible = TRUE])
    /\ UNCHANGED <<ledgerVars, popularity, ingestVars, recVars, embedVars, route, coach,
                   localStorage, requests>>

\* setTimeout(executeTypingAnimation, initialDelay) fires
FireInitial ==
    /\ textType.timer = "initial"
    /\ textType' = [textType EXCEPT !.timer = Execute(textType)]
    /\ UNCHANGED <<ledgerVars, popularity, ingestVars, recVars, embedVars, route, coach,
                   localStorage, requests>>

\* the typing timer fires: one more character
FireType ==
    /\ textType.timer = "type"
    /\ LET processedText == Processed(textType.text[textType.currentTextIndex + 1],
                                      textType.reverseMode)
       IN textType' = AfterRender(
              [textType EXCEPT !.displayedText =
                                   Append(@, processedText[textType.currentCharIndex + 1]),
                               !.currentCharIndex = @ + 1])
    /\ UNCHANGED <<ledgerVars, popularity, ingestVars, recVars, embedVars, route, coach,
                   localStorage, requests>>

\* the pause after a typed phrase ends: setIsDeleting(true)
FirePause ==
    /\ textType.timer = "pause"
    /\ textType' = AfterRender([textType EXCEPT !.isDeleting = TRUE])
    /\ UNCHANGED <<ledgerVars, popularity, ingestVars, recVars, embedVars, route, coach,
                   localStorage, requests>>

\* the deleting timer fires: prev.slice(0, -1)
FireDelete ==
    /\ textType.timer = "delete"
    /\ textType' = AfterRender(
           [textType EXCEPT !.displayedText = SubSeq(@, 1, Len(@) - 1)])
    /\ UNCHANGED <<ledgerVars, popularity, ingestVars, recVars, embedVars, route, coach,
                   localStorage, requests>>

\* the effect finds the phrase deleted: setIsDeleting(false), and unless this
\* was the last phrase without loop, the callback and the next phrase
CompleteDeletion ==
    /\ textType.timer = "complete"
    /\ LET t == textType
           n == Len(t.text)
       IN
       IF IsLast(t.currentTextIndex, n) /\ ~t.loop
       THEN textType' = AfterRender([t EXCEPT !.isDeleting = FALSE])
       ELSE /\ Len(t.calls) < MaxCalls
            /\ textType' = AfterRender(
                   [t EXCEPT !.isDeleting = FALSE,
                             !.calls = Append(@, <<t.text[t.currentTextIndex + 1],
                                                   t.currentTextIndex>>),
                             !.currentTextIndex = (@ + 1) % n,
                             !.currentCharIndex = 0])
    /\ UNCHANGED <<ledgerVars, popularity, ingestVars, recVars, embedVars, route, coach,
                   localStorage, requests>>

\* the component mounts with its props: the state of useState, then the
\* first run of the effect
MountTextType(text, loop, reverseMode, startOnVisible) ==
    /\ textType = NoTextType
    /\ textType' = AfterRender(
           [text |-> text, loop |-> loop, reverseMode |-> reverseMode,
            displayedText |-> <<>>, currentCharIndex |-> 0, isDeleting |-> FALSE,
            currentTextIndex |-> 0, isVisible |-> ~startOnVisible, timer |-> "none",
            calls |-> <<>>])
    /\ UNCHANGED <<ledgerVars, popularity, ingestVars, recVars, embedVars, route, coach,
                   localStorage, requests>>

NextTextType ==
    \/ \E text \in TextArrays, loop \in BOOLEAN, reverseMode \in BOOLEAN,
          startOnVisible \in BOOLEAN :
          MountTextType(text, loop, reverseMode, startOnVisible)
    \/ Intersect
    \/ FireInitial
    \/ FireType
    \/ FirePause
    \/ FireDelete
    \/ CompleteDeletion

SpecTextType == InitCoach /\ [][NextTextType]_vars

\* a pending timer fires, a pending effect runs, the component mounts
SpecTextTypeLive ==
    /\ SpecTextType
    /\ WF_vars(FireInitial \/ FireType \/ FirePause \/ FireDelete \/ CompleteDeletion)

(***************************************************************************)
(* Properties of TextType.                                                 *)
(***************************************************************************)
TextTypeMounted == textType.text # <<>>

LastIndex == Len(textType.text) - 1

\* the current phrase as it is typed
CurrentProcessed ==
    Processed(textType.text[textType.currentTextIndex + 1], textType.reverseMode)

\* the animation is over: the last phrase stands, nothing is pending
Finished ==
    /\ textType.isVisible
    /\ textType.currentTextIndex = LastIndex
    /\ textType.displayedText = Processed(textType.text[Len(textType.text)],
                                          textType.reverseMode)
    /\ ~textType.isDeleting
    /\ textType.timer = "none"

\* C29: with loop=false, once the element is visible the animation reaches
\* the state where the last phrase (as typed, reversed under reverseMode) is
\* fully displayed, isDeleting is false and no timer is pending, and stays
\* there; the displayed text is always a prefix of the current phrase, the
\* phrase index only moves to the next phrase and only from a phrase that
\* was typed in full and then deleted to empty; deleting starts only on a
\* fully typed phrase; the last phrase is never deleted.
C29_TypesOnceAndStops ==
    /\ [](TextTypeMounted /\ ~textType.loop =>
            /\ Len(textType.displayedText) <= Len(CurrentProcessed)
            /\ textType.displayedText
                 = SubSeq(CurrentProcessed, 1, Len(textType.displayedText))
            /\ textType.currentTextIndex = LastIndex => ~textType.isDeleting)
    /\ [][(TextTypeMounted /\ ~textType.loop) =>
            /\ textType'.currentTextIndex \in
                 {textType.currentTextIndex, textType.currentTextIndex + 1}
            /\ textType'.currentTextIndex # textType.currentTextIndex
                 => textType.isDeleting /\ textType.displayedText = <<>>
            /\ (textType'.isDeleting /\ ~textType.isDeleting)
                 => textType.displayedText = CurrentProcessed
            /\ textType.currentTextIndex = LastIndex
                 => Len(textType'.displayedText) >= Len(textType.displayedText)
            /\ Finished => Finished']_vars
    /\ (TextTypeMounted /\ ~textType.loop /\ textType.isVisible) ~> Finished

\* two phrases without loop: the first typed and deleted, the second stands
C29_Witness ==
    /\ textType.text = <<<<"a", "b">>, <<"a">>>>
    /\ ~textType.loop
    /\ Finished
    /\ textType.displayedText = <<"a">>

\* the step types the last character of the current phrase
FinishesTyping ==
    /\ TextTypeMounted
    /\ ~textType.isDeleting
    /\ Len(textType.displayedText) < Len(CurrentProcessed)
    /\ textType'.displayedText = CurrentProcessed

\* C30: the step that finishes typing a phrase calls
\* onSentenceComplete(sentence, index) with that phrase and its index, no
\* other step calls it, and without loop no phrase is reported twice.
C30_CalledWhenTyped ==
    /\ [][/\ FinishesTyping =>
                textType'.calls = Append(textType.calls,
                                         <<textType.text[textType.currentTextIndex + 1],
                                           textType.currentTextIndex>>)
          /\ (TextTypeMounted /\ textType'.calls # textType.calls) => FinishesTyping]_vars
    /\ [](~textType.loop =>
            \A i, j \in DOMAIN textType.calls : i # j => textType.calls[i] # textType.calls[j])

\* what the code does: the callback is called when a phrase has been deleted,
\* with the deleted phrase and its index, and never for the last phrase
\* without loop
CalledWhenDeleted ==
    /\ [][(TextTypeMounted /\ textType'.calls # textType.calls) =>
             /\ textType.isDeleting /\ textType.displayedText = <<>>
             /\ textType'.calls = Append(textType.calls,
                                         <<textType.text[textType.currentTextIndex + 1],
                                           textType.currentTextIndex>>)]_vars
    /\ [](~textType.loop =>
            \A i \in DOMAIN textType.calls : textType.calls[i][2] # LastIndex)

====
